---- MODULE Spec2Model ----
(***************************************************************************)
(* APIS: the serial device controller (apis/pics_controller.py) and the    *)
(* capture-sequence orchestrator (apis/sequence.py), as a state machine.   *)
(*                                                                         *)
(* Text (command tokens, response lines) is modelled as tuples of one-     *)
(* character strings, so that formatting, strip(), startswith() and the   *)
(* substring test are computed on the characters as the code computes     *)
(* them.                                                                   *)
(***************************************************************************)
EXTENDS Integers, Sequences, FiniteSets, TLC

\* ------------------------------------------------------------------ bounds
\* Lines the serial driver can hold unread at one time.
MaxBuf == 1
\* Polls of the READY wait loop that fit in the handshake window.
MaxPolls == 2
\* Sample angles of a sequence request (a prefix of the default list).
NAngles == 2
\* 50 ms slices of one settling wait.
SettleSlices == 2
\* Presses of the E-STOP button during one run.
MaxPresses == 1

\* --------------------------------------------------------------- config.py
MAX_RETRIES == 3
CMD_POLARIZER == 10
CMD_SAMPLE == 11
CMD_HOME == 96
CMD_RESET == 98
CMD_ESTOP == 99
STATE_LATCHED == "LATCHED"
STATE_ARMED == "ARMED"

\* ------------------------------------------------------------------- text
NL == "\n"
Whitespace == {" ", NL, "\r", "\t"}
DigitChar == <<"0", "1", "2", "3", "4", "5", "6", "7", "8", "9">>

RECURSIVE Digits(_)
\* The decimal digits of n >= 0, most significant first.
Digits(n) ==
    IF n < 10 THEN <<DigitChar[n + 1]>>
    ELSE Digits(n \div 10) \o <<DigitChar[(n % 10) + 1]>>

RECURSIVE ZeroPad(_, _)
ZeroPad(s, w) == IF Len(s) >= w THEN s ELSE ZeroPad(<<"0">> \o s, w)

\* Python's format(n, "0<w>d"): at least w characters, the sign counted.
FormatD(n, w) ==
    IF n < 0 THEN <<"-">> \o ZeroPad(Digits(0 - n), w - 1)
    ELSE ZeroPad(Digits(n), w)

\* A formatting without the zero padding.
format_command_unpadded(pp, aaa) == FormatD(pp, 1) \o FormatD(aaa, 1)

\* f"{pp:02d}{aaa:03d}"
format_command(pp, aaa) == FormatD(pp, 2) \o FormatD(aaa, 3)

RECURSIVE LStrip(_)
LStrip(s) ==
    IF s = <<>> THEN s
    ELSE IF Head(s) \in Whitespace THEN LStrip(Tail(s)) ELSE s

RECURSIVE RStrip(_)
RStrip(s) ==
    IF s = <<>> THEN s
    ELSE IF s[Len(s)] \in Whitespace THEN RStrip(SubSeq(s, 1, Len(s) - 1))
    ELSE s

\* str.strip()
Strip(s) == RStrip(LStrip(s))

\* str.startswith(p)
StartsWith(s, p) == Len(s) >= Len(p) /\ SubSeq(s, 1, Len(p)) = p

\* p in s
Contains(s, p) ==
    \E i \in 1..(Len(s) - Len(p) + 1) : SubSeq(s, i, i + Len(p) - 1) = p

S_OK == <<"O", "K">>
S_OK_RESET == <<"O", "K", " ", "R", "E", "S", "E", "T">>
S_OK_ESTOP == <<"O", "K", " ", "E", "S", "T", "O", "P">>
S_READY == <<"R", "E", "A", "D", "Y">>
S_ERR_NO_CONNECTION ==
    <<"E", "R", "R", " ", "N", "O", "_", "C", "O", "N", "N", "E", "C", "T", "I", "O", "N">>
S_ERR_TIMEOUT == <<"E", "R", "R", " ", "T", "I", "M", "E", "O", "U", "T">>
S_ERR_EXCEPTION ==
    <<"E", "R", "R", " ", "E", "X", "C", "E", "P", "T", "I", "O", "N", " ", "i", "o">>

\* What the device may put on the line (raw, with the line terminator): its
\* boot line, the acknowledgements of RESET, ESTOP and a move, an error line
\* and a blank line.
DeviceLines ==
    { S_READY \o <<NL>>,
      S_OK_RESET \o <<NL>>,
      S_OK_ESTOP \o <<NL>>,
      <<"O", "K", " ", "1", "1", " ", "0", "4", "5", NL>>,
      <<"E", "R", "R", " ", "T", "O", "K", "E", "N", "\r", NL>>,
      <<NL>> }

\* ---------------------------------------------------------------- threads
GUI == "gui"
SEQ == "seq"
Threads == {GUI, SEQ}
NoThread == "none"

\* The angles a caller of the typed move operations passes.
PolarizerAngles == {90}
SampleAngles == {45}

VARIABLES
    ser,            \* PicsController.ser: "None" | "Open" | "Closed"
    is_connected,   \* PicsController.is_connected
    last_state,     \* PicsController.last_state
    lock,           \* holder of PicsController.lock, or NoThread
    inbuf,          \* lines received and not yet read (the driver's input buffer)
    pc,             \* per thread: where it is in the controller call it makes
    op,             \* per thread: the controller operation it is in
    tok,            \* per thread: cmd_str of its transaction
    attempt,        \* per thread: attempt of its transaction
    resp,           \* per thread: what _send_raw_command returned to it
    ret,            \* per thread: what the operation returns ("true", "false", "raise")
    written,        \* per thread: what its operation wrote to the line, in order
    delay,          \* per thread: its transaction's last backoff sleep, in base delays
    entry_state,    \* per thread: last_state when its operation was invoked
    args,           \* per thread: <<pp, aaa>> of the command its operation sends
    polls,          \* iterations of connect()'s READY wait loop made so far
    discarded,      \* lines connect()'s wait loop read and dropped
    seqpc,          \* where the sequence thread is in run_sequence
    do_crosspol,    \* the run's arguments
    do_normal,
    phase,          \* "crosspol" | "normal" | "none"
    idx,            \* sample angles of the phase done so far
    slice,          \* slices of the current settling wait done so far
    abort_flag,     \* PicsSequence._abort_flag
    abort_in_run,   \* abort() was called while the run was in progress
    abort_early,    \* abort() was called before the run's first statement
    outcome,        \* how the run ended: "Done" | "Aborted" | "Failed" | "Rejected"
    run_ret,        \* what run_sequence did at its end: "return" | "raise"
    fail_cause,     \* what raised the error the run failed with
    run_estops,     \* emergency_stop() calls made by the run
    events,         \* acknowledged moves and capture+log events of the run, in order
    cam_streaming,  \* the camera's _streaming flag
    cam_exposure,   \* the exposure the run set last
    stops,          \* stop_live() calls made by the run
    no_image,       \* a log record was appended for a capture that gave no image
    resumes,        \* resume_live() calls made by the run
    presses,        \* E-STOP presses so far
    in_estop,       \* the front-end is inside on_estop
    kill_req,       \* terminate() was called on the worker and has not acted yet
    live_pc,        \* position of the live-preview thread ("off": not started)
    paused,         \* CameraThread._paused
    cam_mutex,      \* holder of CameraThread._cam_mutex
    emitted,        \* the signal SequenceThread.run emitted at its end
    SETTLING_TIME_S \* config.SETTLING_TIME_S as it is now, in 50 ms slices

ctrlVars == <<ser, is_connected, last_state, lock, inbuf>>
thrVars == <<pc, op, tok, attempt, resp, ret, written, delay, entry_state, args>>
connVars == <<polls, discarded>>
reqVars == <<do_crosspol, do_normal, SETTLING_TIME_S>>
runVars == <<seqpc, phase, idx, slice, outcome, run_ret, fail_cause, run_estops, events>>
abortVars == <<abort_flag, abort_in_run, abort_early>>
camVars == <<cam_streaming, cam_exposure, stops, resumes, no_image>>
opVars == <<presses, in_estop, kill_req>>
uiVars == <<live_pc, paused, cam_mutex>>
seqVars == <<reqVars, runVars, abortVars, camVars, opVars, uiVars, emitted>>
vars == <<ctrlVars, thrVars, connVars, seqVars>>

\* No call in progress, no run started; the camera streams live.
InitIdle ==
    /\ lock = NoThread
    /\ inbuf = <<>>
    /\ pc = [t \in Threads |-> "idle"]
    /\ op = [t \in Threads |-> "none"]
    /\ tok = [t \in Threads |-> <<>>]
    /\ attempt = [t \in Threads |-> 0]
    /\ resp = [t \in Threads |-> <<>>]
    /\ ret = [t \in Threads |-> "none"]
    /\ written = [t \in Threads |-> <<>>]
    /\ delay = [t \in Threads |-> 0]
    /\ entry_state = [t \in Threads |-> STATE_LATCHED]
    /\ args = [t \in Threads |-> <<>>]
    /\ polls = 0
    /\ discarded = 0
    /\ seqpc = "idle"
    /\ do_crosspol = TRUE
    /\ do_normal = TRUE
    /\ phase = "none"
    /\ idx = 0
    /\ slice = 0
    /\ abort_flag = FALSE
    /\ abort_in_run = FALSE
    /\ abort_early = FALSE
    /\ outcome = "none"
    /\ run_ret = "none"
    /\ fail_cause = "none"
    /\ run_estops = 0
    /\ events = <<>>
    /\ cam_streaming = TRUE
    /\ cam_exposure = "live"
    /\ stops = 0
    /\ resumes = 0
    /\ no_image = FALSE
    /\ presses = 0
    /\ in_estop = FALSE
    /\ kill_req = FALSE
    /\ live_pc = "off"
    /\ paused = FALSE
    /\ cam_mutex = "none"
    /\ emitted = "none"
    /\ SETTLING_TIME_S = SettleSlices

\* PicsController.__init__.
Init ==
    /\ ser = "None"
    /\ is_connected = FALSE
    /\ last_state = STATE_LATCHED
    /\ InitIdle

\* ----------------------------------------------------------- the device
\* Some thread is in a read of the line or in connect()'s wait loop. Every
\* reader clears the input buffer before it listens (reset_input_buffer in
\* connect() and at the head of each attempt), so a line that arrives while
\* nobody listens is never read: only arrivals while somebody listens are
\* modelled.
Listening == \E t \in Threads : pc[t] \in {"tx_read", "connect_wait"}

\* The device puts a line on the wire; the driver buffers it.
DeviceSend ==
    /\ ser = "Open"
    /\ Listening
    /\ Len(inbuf) < MaxBuf
    /\ \E l \in DeviceLines : inbuf' = Append(inbuf, l)
    /\ UNCHANGED seqVars
    /\ UNCHANGED <<ser, is_connected, last_state, lock, thrVars, connVars>>

\* ------------------------------------------------- _send_raw_command
\* Entry of an operation of thread t that starts with a transaction:
\* cmd_str is formatted before the lock is asked for.
Invoke(t, o, pp, aaa) ==
    /\ op' = [op EXCEPT ![t] = o]
    /\ tok' = [tok EXCEPT ![t] = format_command(pp, aaa)]
    /\ pc' = [pc EXCEPT ![t] = "tx_lock"]
    /\ entry_state' = [entry_state EXCEPT ![t] = last_state]
    /\ args' = [args EXCEPT ![t] = <<pp, aaa>>]
    /\ ret' = [ret EXCEPT ![t] = "none"]
    /\ UNCHANGED <<attempt, resp, written, delay>>

\* A lock that is taken whether or not another thread holds it.
LockFree_unlocked(t) == TRUE

\* The lock is free to take.
LockFree(t) == lock = NoThread

\* A loop test that gives up one attempt early.
Exhausted_early(a) == a + 1 >= MAX_RETRIES

\* A loop test that allows one attempt too many.
Exhausted_late(a) == a > MAX_RETRIES

\* The retry loop's test, `while attempt < retry_count`, fails.
Exhausted(a) == ~(a < MAX_RETRIES)

\* A connection test that always finds a line.
LineDown_never == FALSE

\* The connection test: `if not self.ser or not self.ser.is_open`.
LineDown == ser # "Open"

\* `with self.lock:` and the connection test under it.
tx_lock(t) ==
    /\ pc[t] = "tx_lock"
    /\ LockFree(t)
    /\ IF LineDown
       THEN /\ resp' = [resp EXCEPT ![t] = S_ERR_NO_CONNECTION]
            /\ pc' = [pc EXCEPT ![t] = "post"]
            /\ UNCHANGED <<lock, attempt>>
       ELSE IF ~Exhausted(0)
       THEN /\ lock' = t
            /\ attempt' = [attempt EXCEPT ![t] = 0]
            /\ pc' = [pc EXCEPT ![t] = "tx_write"]
            /\ UNCHANGED resp
       ELSE /\ resp' = [resp EXCEPT ![t] = S_ERR_TIMEOUT]
            /\ pc' = [pc EXCEPT ![t] = "post"]
            /\ UNCHANGED <<lock, attempt>>
    /\ UNCHANGED seqVars
    /\ UNCHANGED <<ser, is_connected, last_state, inbuf, op, tok, ret, written, delay,
                   entry_state, args, connVars>>

\* reset_input_buffer(), write(cmd_str + "\n"), flush().
tx_write(t) ==
    /\ pc[t] = "tx_write"
    /\ ser = "Open"
    /\ inbuf' = <<>>
    /\ written' = [written EXCEPT ![t] = Append(@, tok[t] \o <<NL>>)]
    /\ pc' = [pc EXCEPT ![t] = "tx_read"]
    /\ UNCHANGED seqVars
    /\ UNCHANGED <<ser, is_connected, last_state, lock, op, tok, attempt, resp,
                   ret, delay, entry_state, args, connVars>>

\* A read that takes only an acknowledgement for a reply.
GotReply_ack(line) == StartsWith(line, S_OK)

\* The test of the line read, `if not response`, fails: there is a reply.
GotReply(line) == line # <<>>

\* readline().decode().strip(): a buffered line, or nothing within the timeout.
tx_read(t) ==
    /\ pc[t] = "tx_read"
    /\ ser = "Open"
    /\ LET line == IF inbuf = <<>> THEN <<>> ELSE Strip(Head(inbuf))
       IN  /\ inbuf' = IF inbuf = <<>> THEN inbuf ELSE Tail(inbuf)
           /\ IF ~GotReply(line)
              THEN /\ attempt' = [attempt EXCEPT ![t] = @ + 1]
                   /\ pc' = [pc EXCEPT ![t] = "tx_backoff"]
                   /\ UNCHANGED <<resp, lock>>
              ELSE /\ resp' = [resp EXCEPT ![t] = line]
                   /\ lock' = NoThread
                   /\ pc' = [pc EXCEPT ![t] = "post"]
                   /\ attempt' = [attempt EXCEPT ![t] = 0]
    /\ UNCHANGED seqVars
    /\ UNCHANGED <<ser, is_connected, last_state, op, tok, ret, written, delay,
                   entry_state, args, connVars>>

\* A backoff that does not grow.
BackoffDelay_fixed(k) == 1

\* The backoff after the k-th timeout, in base delays of 0.2 s:
\* time.sleep(0.2 * (2 ** (attempt - 1))).
BackoffDelay(k) == 2 ^ (k - 1)

\* The backoff sleep, then the loop test; "ERR TIMEOUT" when the budget is spent.
tx_backoff(t) ==
    /\ pc[t] = "tx_backoff"
    /\ delay' = [delay EXCEPT ![t] = BackoffDelay(attempt[t])]
    /\ IF ~Exhausted(attempt[t])
       THEN /\ pc' = [pc EXCEPT ![t] = "tx_write"]
            /\ UNCHANGED <<resp, lock>>
       ELSE /\ resp' = [resp EXCEPT ![t] = S_ERR_TIMEOUT]
            /\ lock' = NoThread
            /\ pc' = [pc EXCEPT ![t] = "post"]
    /\ attempt' = [attempt EXCEPT ![t] = IF ~Exhausted(@) THEN @ ELSE 0]
    /\ UNCHANGED seqVars
    /\ UNCHANGED <<ser, is_connected, last_state, inbuf, op, tok, ret,
                   written, entry_state, args, connVars>>

\* An except clause that counts the failure as one more timeout.
tx_io_error_retry(t) ==
    /\ pc[t] \in {"tx_write", "tx_read"}
    /\ attempt' = [attempt EXCEPT ![t] = @ + 1]
    /\ pc' = [pc EXCEPT ![t] = "tx_backoff"]
    /\ UNCHANGED seqVars
    /\ UNCHANGED <<ser, is_connected, last_state, lock, inbuf, op, tok, resp, ret,
                   written, delay, entry_state, args, connVars>>

\* An I/O call of the attempt raises: before the write (the buffer clear or
\* the write itself) or after it (flush, readline).
tx_io_error(t) ==
    /\ pc[t] \in {"tx_write", "tx_read"}
    /\ resp' = [resp EXCEPT ![t] = S_ERR_EXCEPTION]
    /\ lock' = NoThread
    /\ pc' = [pc EXCEPT ![t] = "post"]
    /\ attempt' = [attempt EXCEPT ![t] = 0]
    /\ UNCHANGED seqVars
    /\ UNCHANGED <<ser, is_connected, last_state, inbuf, op, tok, ret,
                   written, delay, entry_state, args, connVars>>

_send_raw_command(t) ==
    \/ tx_lock(t)
    \/ tx_write(t)
    \/ tx_read(t)
    \/ tx_backoff(t)
    \/ tx_io_error(t)

\* The operation of thread t ends with result r, which its caller has in
\* hand at pc "ret"; the transaction's locals are gone.
Finish(t, r) ==
    /\ ret' = [ret EXCEPT ![t] = r]
    /\ pc' = [pc EXCEPT ![t] = "ret"]
    /\ tok' = [tok EXCEPT ![t] = <<>>]
    /\ attempt' = [attempt EXCEPT ![t] = 0]
    /\ resp' = [resp EXCEPT ![t] = <<>>]
    /\ written' = [written EXCEPT ![t] = <<>>]
    /\ delay' = [delay EXCEPT ![t] = 0]

\* The caller takes the result; the call's locals are gone.
Locals(t) ==
    /\ op' = [op EXCEPT ![t] = "none"]
    /\ tok' = [tok EXCEPT ![t] = <<>>]
    /\ attempt' = [attempt EXCEPT ![t] = 0]
    /\ resp' = [resp EXCEPT ![t] = <<>>]
    /\ ret' = [ret EXCEPT ![t] = "none"]
    /\ written' = [written EXCEPT ![t] = <<>>]
    /\ delay' = [delay EXCEPT ![t] = 0]
    /\ entry_state' = [entry_state EXCEPT ![t] = STATE_LATCHED]
    /\ args' = [args EXCEPT ![t] = <<>>]

Return(t) ==
    /\ pc[t] = "ret"
    /\ pc' = [pc EXCEPT ![t] = "idle"]
    /\ Locals(t)
    /\ UNCHANGED seqVars
    /\ UNCHANGED <<ctrlVars, connVars>>

\* ------------------------------------------------------- typed operations
SendOps == {"send_command", "rotate_polarizer", "rotate_sample"}

\* send_command(pp, aaa), under the name o of the wrapper that was called.
send_command(t, o, pp, aaa) == Invoke(t, o, pp, aaa)

\* A polarizer move that is refused locally while LATCHED, as home() is.
rotate_polarizer_gated(t, angle) ==
    IF last_state = STATE_LATCHED
    THEN /\ op' = [op EXCEPT ![t] = "rotate_polarizer"]
         /\ entry_state' = [entry_state EXCEPT ![t] = last_state]
         /\ args' = [args EXCEPT ![t] = <<>>]
         /\ ret' = [ret EXCEPT ![t] = "false"]
         /\ pc' = [pc EXCEPT ![t] = "ret"]
         /\ UNCHANGED <<tok, attempt, resp, written, delay>>
    ELSE send_command(t, "rotate_polarizer", CMD_POLARIZER, angle)

rotate_polarizer(t, angle) == send_command(t, "rotate_polarizer", CMD_POLARIZER, angle)

rotate_sample(t, angle) == send_command(t, "rotate_sample", CMD_SAMPLE, angle)

emergency_stop(t) == Invoke(t, "emergency_stop", CMD_ESTOP, 0)

reset(t) == Invoke(t, "reset", CMD_RESET, 0)

\* home() without its local gate.
HomeGate_ungated == FALSE

\* The local gate of home(): what it tests before it sends.
HomeGate == last_state = STATE_LATCHED

\* home(): refused locally while LATCHED, else a transaction with code 96.
home(t) ==
    IF HomeGate
    THEN /\ op' = [op EXCEPT ![t] = "home"]
         /\ entry_state' = [entry_state EXCEPT ![t] = last_state]
         /\ args' = [args EXCEPT ![t] = <<>>]
         /\ Finish(t, "false")
    ELSE Invoke(t, "home", CMD_HOME, 0)

\* A classification that accepts only the bare "OK".
Acked_exact(r) == r = S_OK

\* A classification that looks for "OK" anywhere in the line.
Acked_contains(r) == Contains(r, S_OK)

\* send_command's classification of the line: resp.startswith("OK").
Acked(r) == StartsWith(r, S_OK)

\* What each operation does with the line _send_raw_command returned.
send_command_post(t) ==
    /\ pc[t] = "post"
    /\ op[t] \in SendOps
    /\ Finish(t, IF Acked(resp[t]) THEN "true" ELSE "false")
    /\ UNCHANGED seqVars
    /\ UNCHANGED <<ctrlVars, op, entry_state, args, connVars>>

\* An emergency_stop() that records the wrong state.
EstopState_armed == STATE_ARMED

\* The state emergency_stop() sets on "OK ESTOP".
EstopState == STATE_LATCHED

emergency_stop_post(t) ==
    /\ pc[t] = "post"
    /\ op[t] = "emergency_stop"
    /\ IF Contains(resp[t], S_OK_ESTOP)
       THEN /\ last_state' = EstopState
            /\ Finish(t, "true")
       ELSE /\ Finish(t, "false")
            /\ UNCHANGED last_state
    /\ UNCHANGED seqVars
    /\ UNCHANGED <<ser, is_connected, lock, inbuf, op, entry_state, args, connVars>>

\* A reset() that takes any line starting with "OK" for its acknowledgement.
ResetAcked_prefix(r) == StartsWith(r, S_OK)

\* reset()'s test of the line: "OK RESET" in resp.
ResetAcked(r) == Contains(r, S_OK_RESET)

\* A reset() that records the wrong state.
ResetState_latched == STATE_LATCHED

\* The state reset() sets on its acknowledgement.
ResetState == STATE_ARMED

reset_post(t) ==
    /\ pc[t] = "post"
    /\ op[t] = "reset"
    /\ IF ResetAcked(resp[t])
       THEN /\ last_state' = ResetState
            /\ Finish(t, "true")
       ELSE /\ Finish(t, "false")
            /\ UNCHANGED last_state
    /\ UNCHANGED seqVars
    /\ UNCHANGED <<ser, is_connected, lock, inbuf, op, entry_state, args, connVars>>

\* home()'s test of the line: "OK" in resp.
HomeAcked(r) == Contains(r, S_OK)

home_post(t) ==
    /\ pc[t] = "post"
    /\ op[t] = "home"
    /\ Finish(t, IF HomeAcked(resp[t]) THEN "true" ELSE "false")
    /\ UNCHANGED seqVars
    /\ UNCHANGED <<ctrlVars, op, entry_state, args, connVars>>

\* ------------------------------------------------------------- connect
\* An except clause that forgets to close the line.
ConnectFailed_leak(t) ==
    /\ is_connected' = FALSE
    /\ UNCHANGED ser
    /\ Finish(t, "raise")

\* connect()'s except clause: not connected, the line closed if it is open
\* (without the lock), the error raised again.
ConnectFailed(t) ==
    /\ is_connected' = FALSE
    /\ ser' = IF ser = "Open" THEN "Closed" ELSE ser
    /\ Finish(t, "raise")

\* serial.Serial(port, baud), the boot settle and the buffer resets: the port
\* opens, or opening it raises. The front-end connects only when the
\* controller is not connected (app/main.py, on_toggle_connect).
connect_open(t) ==
    /\ pc[t] = "idle"
    /\ ~is_connected
    /\ ser # "Open"
    /\ op' = [op EXCEPT ![t] = "connect"]
    /\ entry_state' = [entry_state EXCEPT ![t] = last_state]
    /\ args' = [args EXCEPT ![t] = <<>>]
    /\ \/ /\ ser' = "Open"
          /\ inbuf' = <<>>
          /\ pc' = [pc EXCEPT ![t] = "connect_wait"]
          /\ UNCHANGED <<is_connected, ret, tok, attempt, resp, written, delay>>
       \/ /\ ConnectFailed(t)
          /\ UNCHANGED inbuf
    /\ UNCHANGED seqVars
    /\ UNCHANGED <<last_state, lock, connVars>>

\* A wait loop that takes any line for the boot message.
IsBootLine_any(line) == line # <<>>

\* The wait loop's test of a line it read.
IsBootLine(line) == line = S_READY

\* One iteration of the READY wait loop: a waiting line is read; "READY"
\* ends the wait, any other line is dropped; then the 0.1 s sleep.
connect_poll(t) ==
    /\ pc[t] = "connect_wait"
    /\ polls < MaxPolls
    /\ ser = "Open"
    /\ IF inbuf # <<>>
       THEN /\ inbuf' = Tail(inbuf)
            /\ IF IsBootLine(Strip(Head(inbuf)))
               THEN /\ is_connected' = TRUE
                    /\ last_state' = STATE_LATCHED
                    /\ Finish(t, "true")
                    /\ UNCHANGED <<polls, discarded>>
               ELSE /\ polls' = polls + 1
                    /\ discarded' = discarded + 1
                    /\ UNCHANGED <<is_connected, last_state, ret, pc, tok, attempt,
                                   resp, written, delay>>
       ELSE /\ polls' = polls + 1
            /\ UNCHANGED <<inbuf, is_connected, last_state, ret, pc, discarded, tok,
                           attempt, resp, written, delay>>
    /\ UNCHANGED seqVars
    /\ UNCHANGED <<ser, lock, op, entry_state, args>>

\* A fallback that sends the wrong command.
ForcedCommand_estop == format_command(CMD_ESTOP, 0)

\* The command of connect()'s fallback.
ForcedCommand == format_command(CMD_RESET, 0)

\* The window has passed without READY: the forced RESET transaction.
connect_force_reset(t) ==
    /\ pc[t] = "connect_wait"
    /\ polls >= MaxPolls
    /\ tok' = [tok EXCEPT ![t] = ForcedCommand]
    /\ pc' = [pc EXCEPT ![t] = "tx_lock"]
    /\ polls' = 0
    /\ discarded' = 0
    /\ UNCHANGED seqVars
    /\ UNCHANGED <<ctrlVars, op, attempt, resp, ret, written, delay, entry_state, args>>

\* An I/O call of the wait loop raises (in_waiting, readline).
connect_io_error(t) ==
    /\ pc[t] = "connect_wait"
    /\ polls < MaxPolls
    /\ ConnectFailed(t)
    /\ UNCHANGED seqVars
    /\ UNCHANGED <<last_state, lock, inbuf, op, entry_state, args, connVars>>

\* The response to the forced RESET decides the connection.
connect_post(t) ==
    /\ pc[t] = "post"
    /\ op[t] = "connect"
    /\ IF Contains(resp[t], S_OK_RESET)
       THEN /\ is_connected' = TRUE
            /\ last_state' = STATE_ARMED
            /\ Finish(t, "true")
            /\ UNCHANGED ser
       ELSE /\ ConnectFailed(t)
            /\ UNCHANGED last_state
    /\ UNCHANGED seqVars
    /\ UNCHANGED <<lock, inbuf, op, entry_state, args, connVars>>

\* connect() has returned or raised; its caller goes on.
connect_return(t) ==
    /\ pc[t] = "ret"
    /\ op[t] = "connect"
    /\ pc' = [pc EXCEPT ![t] = "idle"]
    /\ Locals(t)
    /\ polls' = 0
    /\ discarded' = 0
    /\ UNCHANGED seqVars
    /\ UNCHANGED ctrlVars

connect(t) ==
    \/ connect_open(t)
    \/ connect_poll(t)
    \/ connect_force_reset(t)
    \/ connect_io_error(t)
    \/ connect_post(t)
    \/ connect_return(t)

\* ---------------------------------------------------------- disconnect
disconnect_call(t) ==
    /\ pc[t] = "idle"
    /\ op' = [op EXCEPT ![t] = "disconnect"]
    /\ pc' = [pc EXCEPT ![t] = "disc_lock"]
    /\ entry_state' = [entry_state EXCEPT ![t] = last_state]
    /\ args' = [args EXCEPT ![t] = <<>>]
    /\ UNCHANGED seqVars
    /\ UNCHANGED <<ctrlVars, tok, attempt, resp, ret, written, delay, connVars>>

\* The body of disconnect(), run with the lock held.
disconnect_locked(t) ==
    /\ pc[t] = "disc_lock"
    /\ LockFree(t)
    /\ ser' = IF ser = "Open" THEN "Closed" ELSE ser
    /\ is_connected' = FALSE
    /\ Finish(t, "none")
    /\ UNCHANGED seqVars
    /\ UNCHANGED <<last_state, lock, inbuf, op, entry_state, args, connVars>>

disconnect(t) == disconnect_call(t) \/ disconnect_locked(t)

\* ------------------------------------------------------------- callers
\* A thread calls a typed operation.
TypedCall(t) ==
    \/ /\ pc[t] = "idle"
       /\ emergency_stop(t)
       /\ UNCHANGED <<ctrlVars, connVars, seqVars>>
    \/ /\ pc[t] = "idle"
       /\ reset(t)
       /\ UNCHANGED <<ctrlVars, connVars, seqVars>>
    \/ /\ pc[t] = "idle"
       /\ home(t)
       /\ UNCHANGED <<ctrlVars, connVars, seqVars>>
    \/ /\ pc[t] = "idle"
       /\ \E a \in PolarizerAngles : rotate_polarizer(t, a)
       /\ UNCHANGED <<ctrlVars, connVars, seqVars>>
    \/ /\ pc[t] = "idle"
       /\ \E a \in SampleAngles : rotate_sample(t, a)
       /\ UNCHANGED <<ctrlVars, connVars, seqVars>>

\* The operation's own handling of the transaction's result.
Post(t) ==
    \/ send_command_post(t)
    \/ emergency_stop_post(t)
    \/ reset_post(t)
    \/ home_post(t)

\* A typed operation or disconnect() hands its result to its caller.
CallReturn(t) ==
    /\ op[t] # "connect"
    /\ Return(t)

\* The operator (front-end thread) connects, disconnects and calls typed
\* operations; the worker thread calls typed operations.
Next ==
    \/ DeviceSend
    \/ connect(GUI)
    \/ disconnect(GUI)
    \/ \E t \in Threads : TypedCall(t)
    \/ \E t \in Threads : _send_raw_command(t)
    \/ \E t \in Threads : Post(t)
    \/ \E t \in Threads : CallReturn(t)

Spec == Init /\ [][Next]_vars

\* ==================================================================
\* The acquisition sequence (sequence.py) on top of the controller
\* ==================================================================
\* The angles of a run: the first NAngles of the default list.
SampleAngleList == SubSeq(<<90, 60, 45, 30, 0>>, 1, NAngles)

\* The polarizer angle of a phase (mutant: both phases at 90).
PhaseAngle_fixed(ph) == 90

\* The polarizer angle of a phase.
PhaseAngle(ph) == IF ph = "crosspol" THEN 90 ELSE 0

\* Retries of a sample move that was not acknowledged: one in the
\* Cross-Pol phase, none in the Normal phase.
SampleRetries(ph) == IF ph = "crosspol" THEN 1 ELSE 0

\* run_sequence is between its first statement and its return.
Running == seqpc \notin {"idle", "started", "rejected", "done"}

\* The worker thread takes the result of the controller call it made.
Taken ==
    /\ pc' = [pc EXCEPT ![SEQ] = "idle"]
    /\ Locals(SEQ)

\* PicsSequence.abort(), called from another thread.
abort ==
    /\ UNCHANGED <<opVars, uiVars, emitted>>
    /\ seqpc \notin {"idle", "rejected", "done"}
    /\ ~abort_flag
    /\ abort_flag' = TRUE
    /\ abort_in_run' = (abort_in_run \/ Running)
    /\ abort_early' = (abort_early \/ seqpc = "started")
    /\ UNCHANGED <<ctrlVars, thrVars, connVars, reqVars, runVars, camVars>>

\* The worker thread is started with the run's arguments.
run_start ==
    /\ UNCHANGED <<opVars, uiVars, emitted>>
    /\ seqpc = "idle"
    /\ pc[SEQ] = "idle"
    /\ \E c, n \in BOOLEAN : do_crosspol' = c /\ do_normal' = n
    /\ seqpc' = "started"
    /\ UNCHANGED SETTLING_TIME_S
    /\ UNCHANGED <<phase, idx, slice, outcome, run_ret, fail_cause, run_estops, events>>
    /\ UNCHANGED <<ctrlVars, thrVars, connVars, abortVars, camVars>>

\* The first statements of run_sequence: the abort flag is cleared, a run
\* with no mode is rejected with RuntimeError before the try block.
run_begin ==
    /\ UNCHANGED <<opVars, uiVars, emitted>>
    /\ seqpc = "started"
    /\ abort_flag' = FALSE
    /\ IF ~do_crosspol /\ ~do_normal
       THEN /\ seqpc' = "rejected"
            /\ outcome' = "Rejected"
            /\ run_ret' = "raise"
       ELSE /\ seqpc' = "prepare"
            /\ UNCHANGED <<outcome, run_ret>>
    /\ UNCHANGED <<phase, idx, slice, fail_cause, run_estops, events, abort_in_run,
                   abort_early>>
    /\ UNCHANGED <<ctrlVars, thrVars, connVars, reqVars, camVars>>

\* The handler of an error (mutant: it re-raises without stopping).
Fail_no_estop(cause) ==
    /\ fail_cause' = cause
    /\ outcome' = "Failed"
    /\ seqpc' = "finally"
    /\ Taken
    /\ UNCHANGED <<phase, idx, slice, run_ret, run_estops, events, camVars>>

\* The handler of an error (mutant: it resumes the live stream itself).
Fail_resume(cause) ==
    /\ fail_cause' = cause
    /\ run_estops' = run_estops + 1
    /\ cam_streaming' = TRUE
    /\ resumes' = resumes + 1
    /\ emergency_stop(SEQ)
    /\ seqpc' = "estopping"
    /\ UNCHANGED <<phase, idx, slice, outcome, run_ret, events, cam_exposure, stops,
                   no_image>>

\* An error raised inside the try block reaches `except Exception`: the
\* handler logs it and calls emergency_stop().
Fail(cause) ==
    /\ fail_cause' = cause
    /\ run_estops' = run_estops + 1
    /\ emergency_stop(SEQ)
    /\ seqpc' = "estopping"
    /\ UNCHANGED <<phase, idx, slice, outcome, run_ret, events, camVars>>

\* A checkpoint (mutant: it never raises).
AbortSeen_never == FALSE

\* _check_abort: the flag is set, InterruptedError is raised.
AbortSeen == abort_flag

\* InterruptedError reaches its handler, which only logs.
Interrupted ==
    /\ seqpc' = "finally"
    /\ outcome' = "Aborted"
    /\ UNCHANGED <<phase, idx, slice, run_ret, fail_cause, run_estops, events, camVars>>

\* A phase starts: exposure set, polarizer commanded.
BeginPhase(ph) ==
    /\ phase' = ph
    /\ idx' = 0
    /\ slice' = 0
    /\ cam_exposure' = ph
    /\ rotate_polarizer(SEQ, PhaseAngle(ph))
    /\ seqpc' = "polarizer"
    /\ UNCHANGED <<outcome, run_ret, fail_cause, run_estops, events>>
    /\ UNCHANGED <<cam_streaming, stops, resumes, no_image>>

\* A run that does not look at the connection.
Connected_any == TRUE

\* The run's validation, `if not self.ctrl.is_connected: raise`, passes.
Connected == is_connected

\* Connection check, output directories, stop_live(), reset() called.
run_prepare ==
    /\ UNCHANGED <<opVars, uiVars, emitted>>
    /\ seqpc = "prepare"
    /\ pc[SEQ] = "idle"
    /\ \/ /\ ~Connected
          /\ Fail("not_connected")
       \/ /\ Connected
          /\ Fail("io")
       \/ /\ Connected
          /\ cam_streaming' = FALSE
          /\ stops' = stops + 1
          /\ reset(SEQ)
          /\ seqpc' = "arming"
          /\ UNCHANGED <<phase, idx, slice, outcome, run_ret, fail_cause, run_estops, events>>
          /\ UNCHANGED <<cam_exposure, resumes, no_image>>
    /\ UNCHANGED <<ctrlVars, connVars, reqVars, abortVars>>

\* A run that goes on whatever reset() returned.
ArmedOk_any(r) == TRUE

\* The run's test of the arming reset: `if not self.ctrl.reset(): raise`.
ArmedOk(r) == r = "true"

\* reset() returned: the first phase starts, or the run fails.
run_armed ==
    /\ UNCHANGED <<opVars, uiVars, emitted>>
    /\ seqpc = "arming"
    /\ pc[SEQ] = "ret"
    /\ IF ArmedOk(ret[SEQ])
       THEN BeginPhase(IF do_crosspol THEN "crosspol" ELSE "normal")
       ELSE Fail("reset")
    /\ UNCHANGED <<ctrlVars, connVars, reqVars, abortVars>>

\* rotate_polarizer() returned.
run_polarized ==
    /\ UNCHANGED <<opVars, uiVars, emitted>>
    /\ seqpc = "polarizer"
    /\ pc[SEQ] = "ret"
    /\ IF ret[SEQ] = "true"
       THEN /\ Taken
            /\ events' = Append(events, <<"polarizer", PhaseAngle(phase)>>)
            /\ seqpc' = "settle_pol"
            /\ UNCHANGED <<phase, idx, slice, outcome, run_ret, fail_cause, run_estops, camVars>>
       ELSE Fail("polarizer")
    /\ UNCHANGED <<ctrlVars, connVars, reqVars, abortVars>>

\* One iteration of _wait_settling's loop, or its end.
_wait_settling(here, next) ==
    /\ UNCHANGED <<opVars, uiVars, emitted>>
    /\ seqpc = here
    /\ pc[SEQ] = "idle"
    /\ IF slice < SettleSlices
       THEN IF AbortSeen
            THEN Interrupted
            ELSE /\ slice' = slice + 1
                 /\ UNCHANGED <<seqpc, phase, idx, outcome, run_ret, fail_cause,
                                run_estops, events, camVars>>
       ELSE /\ seqpc' = next
            /\ slice' = 0
            /\ UNCHANGED <<phase, idx, outcome, run_ret, fail_cause, run_estops,
                           events, camVars>>
    /\ UNCHANGED <<ctrlVars, thrVars, connVars, reqVars, abortVars>>

\* The head of a phase's loop over the sample angles: next angle (abort
\* check, then the move), or the phase is over (next phase, or home()).
run_angle ==
    /\ UNCHANGED <<opVars, uiVars, emitted>>
    /\ seqpc = "angle"
    /\ pc[SEQ] = "idle"
    /\ IF idx < NAngles
       THEN IF AbortSeen
            THEN Interrupted /\ UNCHANGED thrVars
            ELSE /\ rotate_sample(SEQ, SampleAngleList[idx + 1])
                 /\ seqpc' = "move"
                 /\ UNCHANGED <<phase, idx, slice, outcome, run_ret, fail_cause,
                                run_estops, events, camVars>>
       ELSE IF phase = "crosspol" /\ do_normal
            THEN BeginPhase("normal")
            ELSE /\ home(SEQ)
                 /\ seqpc' = "homing"
                 /\ UNCHANGED <<phase, idx, slice, outcome, run_ret, fail_cause,
                                run_estops, events, camVars>>
    /\ UNCHANGED <<ctrlVars, connVars, reqVars, abortVars>>

\* rotate_sample() returned: settle, retry once (Cross-Pol), or fail.
run_moved ==
    /\ UNCHANGED <<opVars, uiVars, emitted>>
    /\ seqpc \in {"move", "move_retry"}
    /\ pc[SEQ] = "ret"
    /\ IF ret[SEQ] = "true"
       THEN /\ Taken
            /\ events' = Append(events, <<"sample", SampleAngleList[idx + 1]>>)
            /\ seqpc' = "settle_move"
            /\ UNCHANGED <<phase, idx, slice, outcome, run_ret, fail_cause, run_estops, camVars>>
       ELSE IF seqpc = "move" /\ SampleRetries(phase) > 0
            THEN /\ rotate_sample(SEQ, SampleAngleList[idx + 1])
                 /\ seqpc' = "move_retry"
                 /\ UNCHANGED <<phase, idx, slice, outcome, run_ret, fail_cause,
                                run_estops, events, camVars>>
            ELSE Fail("sample")
    /\ UNCHANGED <<ctrlVars, connVars, reqVars, abortVars>>

\* DummyCamera.capture(): get_image(), None while the stream is stopped.
DummyCamera_capture == IF cam_streaming THEN {"frame"} ELSE {"None"}

\* XimeaCamera.capture(): get_image(), None when the camera is not open or
\* the acquisition raised.
XimeaCamera_capture == {"frame", "None"}

\* save_image: False, with nothing written, when there is no image data.
save_image(img) == img # "None"

\* capture(), save_image() and append_to_log() of one angle: the frame (or
\* None) is saved and logged, or one of the three raises. The result of
\* save_image is not looked at; the record says "OK".
run_capture ==
    /\ UNCHANGED <<opVars, uiVars, emitted>>
    /\ seqpc = "capture"
    /\ pc[SEQ] = "idle"
    /\ \/ /\ \E img \in DummyCamera_capture \cup XimeaCamera_capture :
                no_image' = (no_image \/ ~save_image(img))
          /\ events' = Append(events, <<"capture", phase, SampleAngleList[idx + 1]>>)
          /\ idx' = idx + 1
          /\ seqpc' = "angle"
          /\ UNCHANGED <<phase, slice, outcome, run_ret, fail_cause, run_estops>>
          /\ UNCHANGED <<cam_streaming, cam_exposure, stops, resumes>>
          /\ UNCHANGED thrVars
       \/ Fail("capture")
    /\ UNCHANGED <<ctrlVars, connVars, reqVars, abortVars>>

\* A run that takes a home() that returned false for an error.
HomeOk_checked(r) == r = "true"

\* The run's test of home()'s result: there is none, `self.ctrl.home()`.
HomeOk(r) == TRUE

\* home() returned (its result is not looked at): the try block is over.
run_homed ==
    /\ UNCHANGED <<opVars, uiVars, emitted>>
    /\ seqpc = "homing"
    /\ pc[SEQ] = "ret"
    /\ IF HomeOk(ret[SEQ])
       THEN /\ Taken
            /\ outcome' = "Done"
            /\ seqpc' = "finally"
            /\ UNCHANGED <<phase, idx, slice, run_ret, fail_cause, run_estops, events, camVars>>
       ELSE Fail("home")
    /\ UNCHANGED <<ctrlVars, connVars, reqVars, abortVars>>

\* The handler's emergency_stop() returned: `raise e`.
run_estopped ==
    /\ UNCHANGED <<opVars, uiVars, emitted>>
    /\ seqpc = "estopping"
    /\ pc[SEQ] = "ret"
    /\ Taken
    /\ outcome' = "Failed"
    /\ seqpc' = "finally"
    /\ UNCHANGED <<phase, idx, slice, run_ret, fail_cause, run_estops, events, camVars>>
    /\ UNCHANGED <<ctrlVars, connVars, reqVars, abortVars>>

\* The finally block: resume_live(); then the error, if any, propagates.
run_finally ==
    /\ UNCHANGED <<opVars, uiVars, emitted>>
    /\ seqpc = "finally"
    /\ cam_streaming' = TRUE
    /\ resumes' = resumes + 1
    /\ run_ret' = IF outcome = "Failed" THEN "raise" ELSE "return"
    /\ seqpc' = "done"
    /\ UNCHANGED <<phase, idx, slice, outcome, fail_cause, run_estops, events>>
    /\ UNCHANGED <<cam_exposure, stops, no_image>>
    /\ UNCHANGED <<ctrlVars, thrVars, connVars, reqVars, abortVars>>

run_sequence ==
    \/ run_begin
    \/ run_prepare
    \/ run_armed
    \/ run_polarized
    \/ _wait_settling("settle_pol", "angle")
    \/ run_angle
    \/ run_moved
    \/ _wait_settling("settle_move", "capture")
    \/ run_capture
    \/ run_homed
    \/ run_estopped
    \/ run_finally

\* The signal of the worker thread for the way run_sequence ended: a normal
\* return, InterruptedError, or any other exception.
SignalOf(r, o) ==
    IF r = "return" THEN "finished_ok"
    ELSE IF o = "Aborted" THEN "aborted"
    ELSE "error_occurred"

\* SequenceThread.run after run_sequence: progress 100 and finished_ok, or
\* error_occurred from one of the two handlers.
SequenceThread_run ==
    /\ seqpc \in {"rejected", "done"}
    /\ emitted = "none"
    /\ emitted' = SignalOf(run_ret, outcome)
    /\ UNCHANGED <<ctrlVars, thrVars, connVars, reqVars, runVars, abortVars, camVars, opVars, uiVars>>

\* -------------------------------------- the operator's E-STOP in a run
\* The worker thread exists and has not finished (QThread.isRunning()).
WorkerRunning == seqpc \notin {"idle", "rejected", "done", "killed"}

\* The worker has not been terminated.
Alive(t) == t = SEQ => seqpc # "killed"

\* on_estop, first part: the hardware stop, if the controller is connected.
on_estop ==
    /\ pc[GUI] = "idle"
    /\ ~in_estop
    /\ presses < MaxPresses
    /\ seqpc # "idle"
    /\ presses' = presses + 1
    /\ in_estop' = TRUE
    /\ IF is_connected THEN emergency_stop(GUI) ELSE UNCHANGED thrVars
    /\ UNCHANGED <<kill_req, ctrlVars, connVars, reqVars, runVars, abortVars, camVars, uiVars, emitted>>

\* on_estop, second part: abort() and terminate() of a running worker.
on_estop_logic ==
    /\ in_estop
    /\ pc[GUI] \in {"idle", "ret"}
    /\ in_estop' = FALSE
    /\ IF WorkerRunning
       THEN /\ abort_flag' = TRUE
            /\ abort_in_run' = (abort_in_run \/ Running)
            /\ abort_early' = (abort_early \/ seqpc = "started")
            /\ kill_req' = TRUE
       ELSE UNCHANGED <<abortVars, kill_req>>
    /\ pc' = [pc EXCEPT ![GUI] = "idle"]
    /\ Locals(GUI)
    /\ UNCHANGED <<presses, ctrlVars, connVars, reqVars, runVars, camVars, uiVars, emitted>>

\* terminate() takes effect: the worker stops where it is, at a moment the
\* operating system chooses; what it holds stays held.
worker_terminated ==
    /\ kill_req
    /\ WorkerRunning
    /\ seqpc' = "killed"
    /\ kill_req' = FALSE
    /\ UNCHANGED <<phase, idx, slice, outcome, run_ret, fail_cause, run_estops, events>>
    /\ UNCHANGED <<presses, in_estop, ctrlVars, thrVars, connVars, reqVars, abortVars, camVars, uiVars, emitted>>

\* ------------------------------------------- the live-preview thread
\* CameraThread.run starts: the camera is opened and the loop begins.
live_start ==
    /\ live_pc = "off"
    /\ seqpc = "idle"
    /\ live_pc' = "loop"
    /\ UNCHANGED <<paused, cam_mutex>>
    /\ UNCHANGED <<ctrlVars, thrVars, connVars, reqVars, runVars, abortVars, camVars, opVars, emitted>>

\* One turn of the loop reads _paused: not paused, it goes on to take the
\* mutex; paused, it sleeps and comes back.
live_check ==
    /\ live_pc = "loop"
    /\ ~paused
    /\ live_pc' = "lock"
    /\ UNCHANGED <<paused, cam_mutex>>
    /\ UNCHANGED <<ctrlVars, thrVars, connVars, reqVars, runVars, abortVars, camVars, opVars, emitted>>

\* _cam_mutex.lock(): the loop is inside cam.get_image().
live_lock ==
    /\ live_pc = "lock"
    /\ cam_mutex = "none"
    /\ cam_mutex' = "live"
    /\ live_pc' = "get_image"
    /\ UNCHANGED paused
    /\ UNCHANGED <<ctrlVars, thrVars, connVars, reqVars, runVars, abortVars, camVars, opVars, emitted>>

\* get_image() returned; _cam_mutex.unlock(), emit, sleep.
live_unlock ==
    /\ live_pc = "get_image"
    /\ cam_mutex' = "none"
    /\ live_pc' = "loop"
    /\ UNCHANGED paused
    /\ UNCHANGED <<ctrlVars, thrVars, connVars, reqVars, runVars, abortVars, camVars, opVars, emitted>>

CameraThread_run == live_start \/ live_check \/ live_lock \/ live_unlock

\* Settling durations the operator can enter, in 50 ms slices.
SettlingChoices == {1, 2, 3}

\* on_start_sequence with a live-preview thread: the settling duration the
\* operator entered is stored in the configuration, set_pause(True), then
\* the worker thread is started with the run's arguments.
on_start_sequence ==
    /\ live_pc # "off"
    /\ seqpc = "idle"
    /\ pc[SEQ] = "idle"
    /\ \E s \in SettlingChoices : SETTLING_TIME_S' = s
    /\ paused' = TRUE
    /\ cam_streaming' = FALSE
    /\ \E c, n \in BOOLEAN : do_crosspol' = c /\ do_normal' = n
    /\ seqpc' = "started"
    /\ UNCHANGED <<live_pc, cam_mutex, cam_exposure, stops, resumes, no_image>>
    /\ UNCHANGED <<phase, idx, slice, outcome, run_ret, fail_cause, run_estops, events>>
    /\ UNCHANGED <<ctrlVars, thrVars, connVars, abortVars, opVars, emitted>>

\* restore_ui_after_sequence, reached from the worker's finished_ok or
\* error_occurred signal: set_pause(False).
restore_ui_after_sequence ==
    /\ seqpc \in {"rejected", "done"}
    /\ paused
    /\ paused' = FALSE
    /\ cam_streaming' = TRUE
    /\ UNCHANGED <<live_pc, cam_mutex, cam_exposure, stops, resumes, no_image>>
    /\ UNCHANGED <<ctrlVars, thrVars, connVars, reqVars, runVars, abortVars, opVars, emitted>>

\* A controller that is connected (after either handshake, or after an
\* emergency stop or a reset) or not connected; no run started yet.
InitSeq ==
    /\ \/ ser = "Open" /\ is_connected = TRUE
       \/ ser \in {"None", "Closed"} /\ is_connected = FALSE
    /\ last_state \in {STATE_LATCHED, STATE_ARMED}
    /\ InitIdle

NextSeq ==
    \/ DeviceSend
    \/ run_start
    \/ run_sequence
    \/ SequenceThread_run
    \/ abort
    \/ \E t \in Threads : _send_raw_command(t)
    \/ \E t \in Threads : Post(t)

SpecSeq == InitSeq /\ [][NextSeq]_vars

\* The worker thread is scheduled: run_sequence goes on while it can, and so
\* do the controller calls it makes (the serial reads time out, the sleeps
\* end). Nothing is assumed of the device or of the operator.
SpecSeqLive ==
    /\ SpecSeq
    /\ WF_vars(run_sequence)
    /\ WF_vars(SequenceThread_run)
    /\ WF_vars(\E t \in Threads : _send_raw_command(t))
    /\ WF_vars(\E t \in Threads : Post(t))

\* A run with the operator at the E-STOP button.
NextOp ==
    \/ DeviceSend
    \/ run_start
    \/ run_sequence
    \/ on_estop
    \/ on_estop_logic
    \/ worker_terminated
    \/ \E t \in Threads : Alive(t) /\ _send_raw_command(t)
    \/ \E t \in Threads : Alive(t) /\ Post(t)

SpecOp == InitSeq /\ [][NextOp]_vars

\* Command codes and arguments a caller of send_command passes: inside the
\* protocol's ranges [0,99] and [0,999], and outside them.
EncCodes == {0, 1, 10, 11, 99}
EncArgs == {0, 1, 10, 45, 100, 999}
BadCodes == {0 - 1, 100}
BadArgs == {0 - 1, 1000}

\* The front-end thread calls send_command(pp, aaa).
send_typed(t) ==
    /\ pc[t] = "idle"
    /\ \E pp \in EncCodes \cup BadCodes, aaa \in EncArgs \cup BadArgs :
           send_command(t, "send_command", pp, aaa)
    /\ UNCHANGED <<ctrlVars, connVars, seqVars>>

\* send_command with any command code and argument.
NextFmt ==
    \/ DeviceSend
    \/ send_typed(GUI)
    \/ _send_raw_command(GUI)
    \/ send_command_post(GUI)
    \/ CallReturn(GUI)

SpecFmt == InitSeq /\ [][NextFmt]_vars

\* A run next to the live-preview thread.
NextCam ==
    \/ DeviceSend
    \/ CameraThread_run
    \/ on_start_sequence
    \/ run_sequence
    \/ restore_ui_after_sequence
    \/ \E t \in Threads : _send_raw_command(t)
    \/ \E t \in Threads : Post(t)

SpecCam == InitSeq /\ [][NextCam]_vars

\* ==================================================================
\* Properties of the controller (specification Spec)
\* ==================================================================
\* Thread t is inside a transaction: from the lock taken with the line open
\* to the return of _send_raw_command.
InTx(t) == pc[t] \in {"tx_write", "tx_read", "tx_backoff"}

\* Every entry of w is the command line of token k.
AllWrites(w, k) == \A i \in 1..Len(w) : w[i] = k \o <<NL>>

T_ESTOP == <<"9", "9", "0", "0", "0">>
T_RESET == <<"9", "8", "0", "0", "0">>

\* C1: emergency_stop() has no local gate: invoked in either safety state it
\* goes to the transaction, and with the line open what it writes is 99000
\* and nothing else.
C1_Attempted ==
    \A t \in Threads :
        op[t] = "emergency_stop" =>
            /\ pc[t] \in {"tx_lock", "tx_write", "tx_read", "tx_backoff", "post", "ret"}
            /\ AllWrites(written[t], T_ESTOP)
            /\ pc[t] \in {"tx_read", "tx_backoff"} => written[t] # <<>>

\* C1: when the device's acknowledgement "OK ESTOP" is what the transaction
\* returned, emergency_stop() sets the safety state to LATCHED and returns true.
C1_AckLatches ==
    \A t \in Threads :
        (pc[t] = "post" /\ op[t] = "emergency_stop" /\ pc'[t] # "post"
            /\ resp[t] = S_OK_ESTOP)
        => (last_state' = STATE_LATCHED /\ ret'[t] = "true" /\ pc'[t] = "ret")

\* C1: emergency_stop() is always attempted (99000 is written whatever the
\* safety state is) and, acknowledged, leaves the state LATCHED and returns
\* success.
C1_EmergencyStop == [](C1_Attempted) /\ [][C1_AckLatches]_vars

\* C1 witness: an emergency stop invoked while ARMED has returned success and
\* the state is LATCHED.
C1_Witness ==
    \E t \in Threads :
        /\ pc[t] = "ret"
        /\ op[t] = "emergency_stop"
        /\ ret[t] = "true"
        /\ entry_state[t] = STATE_ARMED
        /\ last_state = STATE_LATCHED

\* C2: home() invoked while the safety state is LATCHED returns false at once:
\* it is never in a transaction, holds no lock and has written nothing.
C2_HomeLatched ==
    \A t \in Threads :
        (op[t] = "home" /\ entry_state[t] = STATE_LATCHED) =>
            /\ pc[t] = "ret"
            /\ ret[t] = "false"
            /\ written[t] = <<>>
            /\ lock # t

\* C2 witness: on an open connection, after an acknowledged emergency stop of
\* the other thread, home() was refused.
C2_Witness ==
    \E t, u \in Threads :
        /\ t # u
        /\ op[t] = "home" /\ pc[t] = "ret" /\ ret[t] = "false"
        /\ entry_state[t] = STATE_LATCHED
        /\ ser = "Open" /\ is_connected
        /\ op[u] = "emergency_stop" /\ pc[u] = "ret" /\ ret[u] = "true"

\* C3: at most one thread is inside a transaction, and it holds the lock.
C3_Mutex ==
    \A t, u \in Threads :
        InTx(t) => (lock = t /\ (u # t => ~InTx(u)))

\* C3: the line is written, and read by a transaction, only by the thread that
\* is alone inside a transaction; disconnect() closes the line only when no
\* thread is inside one.
C3_LineUse ==
    \A t \in Threads :
        /\ (written'[t] # written[t] /\ written'[t] # <<>>)
            => (InTx(t) /\ \A u \in Threads \ {t} : ~InTx(u))
        /\ (pc[t] = "tx_read" /\ pc'[t] # "tx_read" /\ resp'[t] # S_ERR_EXCEPTION)
            => (\A u \in Threads \ {t} : ~InTx(u) /\ written'[u] = written[u])
        /\ (pc[t] = "disc_lock" /\ pc'[t] # "disc_lock")
            => (\A u \in Threads : ~InTx(u) /\ ~InTx(u)')

\* C3: no two command transactions interleave on the wire, and disconnect()
\* cannot close the line in the middle of a transaction.
C3_NoInterleaving == [](C3_Mutex) /\ [][C3_LineUse]_vars

\* C3 witness: one thread is inside a transaction after a timed-out attempt
\* while the other waits for the lock, to send or to disconnect.
C3_Witness ==
    \E t, u \in Threads :
        /\ t # u
        /\ InTx(t) /\ attempt[t] >= 1
        /\ pc[u] \in {"tx_lock", "disc_lock"}

\* C8: a step of connect()'s wait loop that reads a line.
C8_WaitRead(t) ==
    /\ pc[t] = "connect_wait"
    /\ inbuf # <<>>
    /\ inbuf' = Tail(inbuf)
    /\ (polls' # polls \/ pc'[t] # pc[t])

\* C8: "READY" read in the wait window ends connect() with success, connected
\* and LATCHED; any other line is dropped and the wait goes on; nothing is
\* written during the wait.
C8_Step ==
    \A t \in Threads :
        C8_WaitRead(t) =>
            IF Strip(Head(inbuf)) = S_READY
            THEN /\ pc'[t] = "ret" /\ ret'[t] = "true"
                 /\ is_connected' /\ last_state' = STATE_LATCHED
                 /\ written[t] = <<>> /\ written' = written
            ELSE /\ pc'[t] = "connect_wait" /\ ret'[t] = ret[t]
                 /\ discarded' = discarded + 1
                 /\ is_connected' = is_connected /\ last_state' = last_state
                 /\ written' = written

C8_NoWriteInWait ==
    \A t \in Threads : pc[t] = "connect_wait" => written[t] = <<>>

\* C8: the boot handshake: READY within the window gives a connected, LATCHED
\* controller with no command written; other lines are discarded.
C8_BootHandshake == [](C8_NoWriteInWait) /\ [][C8_Step]_vars

\* C8 witness: connect() returned success on READY after dropping another
\* line, and turned an ARMED state into LATCHED.
C8_Witness ==
    /\ pc[GUI] = "ret" /\ op[GUI] = "connect" /\ ret[GUI] = "true"
    /\ discarded >= 1
    /\ entry_state[GUI] = STATE_ARMED
    /\ last_state = STATE_LATCHED
    /\ is_connected /\ ser = "Open"

\* C9: what connect() writes is 98000, within one transaction's budget of
\* attempts, and only after the window has passed.
C9_OnlyReset ==
    \A t \in Threads :
        op[t] = "connect" =>
            /\ AllWrites(written[t], T_RESET)
            /\ Len(written[t]) <= MAX_RETRIES
            /\ (pc[t] = "post" /\ Contains(resp[t], S_OK)) => Len(written[t]) >= 1

\* C9: the acknowledged forced RESET ends connect() with success, connected
\* and ARMED, the line open.
C9_Acked ==
    \A t \in Threads :
        (pc[t] = "post" /\ op[t] = "connect" /\ pc'[t] # "post"
            /\ resp[t] = S_OK_RESET)
        => /\ pc'[t] = "ret" /\ ret'[t] = "true"
           /\ is_connected' /\ last_state' = STATE_ARMED /\ ser' = "Open"

\* C9: the fallback handshake: one RESET command and no other; acknowledged,
\* the controller is connected and ARMED.
C9_FallbackHandshake == [](C9_OnlyReset) /\ [][C9_Acked]_vars

\* C9 witness: the window passed, connect() wrote 98000 once and holds the
\* acknowledgement.
C9_Witness ==
    /\ pc[GUI] = "post" /\ op[GUI] = "connect"
    /\ resp[GUI] = S_OK_RESET
    /\ written[GUI] = <<T_RESET \o <<NL>>>>
    /\ ser = "Open"

\* C10: a connect() that has raised has left the controller not connected and
\* the line not open.
C10_FailedState ==
    \A t \in Threads :
        (pc[t] = "ret" /\ op[t] = "connect" /\ ret[t] # "true") =>
            (ret[t] = "raise" /\ ~is_connected /\ ser # "Open")

\* C10: a forced RESET that was not acknowledged makes connect() raise, and a
\* connect() that has ended returns to its caller: it does not try again.
C10_Step ==
    \A t \in Threads :
        /\ (pc[t] = "post" /\ op[t] = "connect" /\ pc'[t] # "post"
                /\ ~Contains(resp[t], S_OK_RESET))
            => (pc'[t] = "ret" /\ ret'[t] = "raise")
        /\ (pc[t] = "ret" /\ op[t] = "connect" /\ pc'[t] # "ret")
            => (pc'[t] = "idle" /\ ser' = ser /\ is_connected' = is_connected
                /\ written' = written)

\* C10: a handshake with neither READY nor an acknowledged RESET, or an I/O
\* error, fails connect() once, not connected, the line closed.
C10_ConnectFails == [](C10_FailedState) /\ [][C10_Step]_vars

\* C10 witness: connect() raised after a forced RESET that timed out, and the
\* line it had opened is closed.
C10_Witness ==
    /\ pc[GUI] = "ret" /\ op[GUI] = "connect" /\ ret[GUI] = "raise"
    /\ ser = "Closed" /\ ~is_connected
    /\ polls = 0 /\ entry_state[GUI] = STATE_ARMED

\* ------------------------------------------------ retries and replies
\* The operations that are one transaction and a classification of its reply.
TxOps == SendOps \cup {"emergency_stop", "reset", "home"}

T_POL90 == <<"1", "0", "0", "9", "0">>
T_SAMPLE45 == <<"1", "1", "0", "4", "5">>
L_OK_11_045 == <<"O", "K", " ", "1", "1", " ", "0", "4", "5">>
L_ERR_TOKEN == <<"E", "R", "R", " ", "T", "O", "K", "E", "N">>

\* Inside a transaction `attempt` is the number of empty reads so far, and
\* every attempt has written the command line once.
C11_Count ==
    \A t \in Threads :
        (InTx(t) /\ op[t] \in TxOps) =>
            /\ AllWrites(written[t], tok[t])
            /\ Len(written[t]) = attempt[t] + (IF pc[t] = "tx_read" THEN 1 ELSE 0)

C11_Step ==
    \A t \in Threads :
        /\ (op[t] \in SendOps /\ pc[t] = "tx_backoff" /\ attempt[t] < MAX_RETRIES
              /\ pc'[t] # pc[t]) =>
               (pc'[t] = "tx_write" /\ attempt'[t] = attempt[t])
        /\ (op[t] \in SendOps /\ pc[t] = "tx_read" /\ pc'[t] = "post"
              /\ StartsWith(resp'[t], S_OK)) =>
               /\ attempt[t] < MAX_RETRIES
               /\ Len(written'[t]) = attempt[t] + 1
               /\ AllWrites(written'[t], tok[t])
        /\ (op[t] \in SendOps /\ pc[t] = "post" /\ StartsWith(resp[t], S_OK)
              /\ pc'[t] = "ret") =>
               ret'[t] = "true"

\* C11: after N < MAX_RETRIES empty reads the transaction attempts again;
\* when the read after N empty reads returns an acknowledgement the command
\* line has been written N+1 times and the typed operation returns true.
C11_RetryThenAck == [](C11_Count) /\ [][C11_Step]_vars

C11_Witness ==
    \E t \in Threads :
        /\ op[t] = "rotate_polarizer"
        /\ pc[t] = "post"
        /\ StartsWith(resp[t], S_OK)
        /\ written[t] = <<T_POL90 \o <<NL>>, T_POL90 \o <<NL>>>>

C12_Exhausted ==
    \A t \in Threads :
        /\ (op[t] \in TxOps /\ pc[t] = "post" /\ resp[t] = S_ERR_TIMEOUT) =>
               (Len(written[t]) = MAX_RETRIES /\ AllWrites(written[t], tok[t]))
        /\ (op[t] \in TxOps /\ pc[t] = "ret") => ret[t] \in {"true", "false"}
        /\ (op[t] \in TxOps /\ InTx(t)) => Len(written[t]) <= MAX_RETRIES

C12_Step ==
    \A t \in Threads :
        /\ (op[t] \in TxOps /\ pc[t] = "tx_backoff" /\ attempt[t] >= MAX_RETRIES
              /\ pc'[t] # pc[t]) =>
               (pc'[t] = "post" /\ resp'[t] = S_ERR_TIMEOUT /\ lock' = NoThread)
        /\ (op[t] \in TxOps /\ pc[t] = "post" /\ resp[t] = S_ERR_TIMEOUT
              /\ pc'[t] # pc[t]) =>
               (pc'[t] = "ret" /\ ret'[t] = "false")

\* C12: when every attempt of a transaction reads nothing, the raw result
\* is "ERR TIMEOUT" after exactly MAX_RETRIES writes of the command line,
\* and the typed operation returns false (it returns, it does not raise).
C12_RetryExhausted == [](C12_Exhausted) /\ [][C12_Step]_vars

C12_Witness ==
    \E t \in Threads :
        /\ op[t] = "rotate_sample"
        /\ pc[t] = "post"
        /\ resp[t] = S_ERR_TIMEOUT
        /\ Len(written[t]) = 3

\* C13 as stated: rotate_sample(45) whose first three reads were empty goes
\* on to the acknowledgement that follows (it does not give up).
C13_ThreeEmptyReads ==
    [][\A t \in Threads :
        (op[t] = "rotate_sample" /\ tok[t] = T_SAMPLE45 /\ pc[t] = "tx_backoff"
           /\ attempt[t] = 3 /\ pc'[t] # pc[t]) =>
            ~(pc'[t] = "post" /\ resp'[t] = S_ERR_TIMEOUT)]_vars

C13_Step ==
    \A t \in Threads :
        /\ (op[t] = "rotate_sample" /\ tok[t] = T_SAMPLE45 /\ pc[t] = "tx_backoff"
              /\ attempt[t] = 2 /\ pc'[t] # pc[t]) =>
               pc'[t] = "tx_write"
        /\ (op[t] = "rotate_sample" /\ tok[t] = T_SAMPLE45 /\ pc[t] = "tx_read"
              /\ attempt[t] = 2 /\ resp'[t] = L_OK_11_045 /\ pc'[t] = "post") =>
               written'[t] = <<T_SAMPLE45 \o <<NL>>, T_SAMPLE45 \o <<NL>>,
                               T_SAMPLE45 \o <<NL>>>>
        /\ (op[t] = "rotate_sample" /\ pc[t] = "post" /\ pc'[t] = "ret") =>
               /\ resp[t] = L_OK_11_045 => ret'[t] = "true"
               /\ resp[t] = S_ERR_TIMEOUT =>
                      (ret'[t] = "false" /\ Len(written[t]) = 3)
        /\ (op[t] = "rotate_sample" /\ pc[t] = "tx_backoff" /\ attempt[t] = 3
              /\ pc'[t] # pc[t]) =>
               (pc'[t] = "post" /\ resp'[t] = S_ERR_TIMEOUT)

\* C13 (amended): with MAX_RETRIES = 3, two consecutive empty reads and
\* then "OK 11 045" make rotate_sample(45) return true after exactly three
\* writes of 11045; three consecutive empty reads end the call with
\* "ERR TIMEOUT" and false after exactly three writes.
C13_TwoEmptyReads == [][C13_Step]_vars

C13_Witness ==
    \E t \in Threads :
        /\ op[t] = "rotate_sample"
        /\ pc[t] = "post"
        /\ resp[t] = L_OK_11_045
        /\ Len(written[t]) = 3

IsDigits(s) == \A i \in 1..Len(s) : \E d \in 1..10 : s[i] = DigitChar[d]

C14_Token ==
    \A t \in Threads :
        op[t] \in SendOps =>
            /\ AllWrites(written[t], tok[t])
            /\ tok[t] # <<>> => (Len(tok[t]) = 5 /\ IsDigits(tok[t]))
            /\ (op[t] = "rotate_polarizer" /\ tok[t] # <<>>) => tok[t] = T_POL90
            /\ (op[t] = "rotate_sample" /\ tok[t] # <<>>) =>
                   (tok[t][1] = "1" /\ tok[t][2] = "1")

C14_Step ==
    \A t \in Threads :
        (op[t] \in SendOps /\ pc[t] = "post" /\ pc'[t] # pc[t]) =>
            /\ pc'[t] = "ret"
            /\ ret'[t] = "true" <=> StartsWith(resp[t], S_OK)
            /\ ret'[t] \in {"true", "false"}
            /\ resp[t] \in {<<>>, S_ERR_TIMEOUT, S_ERR_NO_CONNECTION, L_ERR_TOKEN} =>
                   ret'[t] = "false"

\* C14: a typed move command writes its five-digit token and one newline
\* (rotate_polarizer(90) writes 10090\n) and nothing else, and returns true
\* exactly when the stripped reply starts with "OK".
C14_TypedCommand == [](C14_Token) /\ [][C14_Step]_vars

C14_Witness ==
    \E t \in Threads :
        /\ op[t] = "rotate_polarizer"
        /\ pc[t] = "post"
        /\ written[t] = <<T_POL90 \o <<NL>>>>
        /\ resp[t] = L_ERR_TOKEN

\* The line thread t's read returns in this step, and it is a reply that is
\* not an acknowledgement.
C24_Rejected(t) ==
    /\ op[t] \in TxOps
    /\ pc[t] = "tx_read"
    /\ pc'[t] # pc[t]
    /\ inbuf # <<>>
    /\ inbuf' = Tail(inbuf)
    /\ Strip(Head(inbuf)) # <<>>
    /\ ~StartsWith(Strip(Head(inbuf)), S_OK)

C24_Step ==
    \A t \in Threads :
        /\ C24_Rejected(t) =>
               /\ pc'[t] = "post"
               /\ resp'[t] = Strip(Head(inbuf))
               /\ written'[t] = written[t]
               /\ Len(written[t]) = attempt[t] + 1
               /\ lock' = NoThread
        /\ (op[t] \in TxOps \ {"home"} /\ pc[t] = "post" /\ pc'[t] # pc[t]
              /\ resp[t] # <<>> /\ ~StartsWith(resp[t], S_OK)) =>
               (pc'[t] = "ret" /\ ret'[t] = "false")

C25_Raised(t) ==
    /\ op[t] \in TxOps
    /\ \/ pc[t] = "tx_write" /\ pc'[t] \notin {"tx_write", "tx_read"}
       \/ pc[t] = "tx_read" /\ pc'[t] # pc[t] /\ inbuf # <<>> /\ inbuf' = inbuf

C25_Step ==
    \A t \in Threads :
        /\ C25_Raised(t) =>
               /\ pc'[t] = "post"
               /\ resp'[t] = S_ERR_EXCEPTION
               /\ written'[t] = written[t]
               /\ lock = t
               /\ lock' = NoThread
        /\ (op[t] \in TxOps /\ pc[t] = "post" /\ pc'[t] # pc[t]) =>
               /\ pc'[t] = "ret"
               /\ (resp[t] = S_ERR_EXCEPTION /\ op[t] # "home") => ret'[t] = "false"

\* C25: an I/O call that raises during an attempt ends the transaction at
\* once: nothing more is written for it, "ERR EXCEPTION" is its result, the
\* lock is released, and the operation returns false.
C25_IoFailureEnds == [][C25_Step]_vars

C25_Witness ==
    \E t \in Threads :
        /\ op[t] = "rotate_polarizer"
        /\ pc[t] = "post"
        /\ resp[t] = S_ERR_EXCEPTION
        /\ Len(written[t]) = 2
        /\ lock = NoThread

C29_Step ==
    \A t \in Threads :
        /\ (op[t] = "disconnect" /\ pc[t] = "disc_lock" /\ pc'[t] # pc[t]) =>
               /\ lock = NoThread
               /\ \A u \in Threads : op[u] \in TxOps => ~InTx(u)
               /\ ser' # "Open"
               /\ is_connected' = FALSE
               /\ pc'[t] = "ret"
               /\ UNCHANGED <<last_state, lock, inbuf>>
               /\ (ser # "Open" /\ ~is_connected) => UNCHANGED <<ser, is_connected>>
        /\ (op[t] \in TxOps /\ pc[t] = "tx_lock" /\ pc'[t] # pc[t] /\ ser # "Open") =>
               /\ pc'[t] = "post"
               /\ resp'[t] = S_ERR_NO_CONNECTION
               /\ written'[t] = <<>>
               /\ UNCHANGED <<ser, is_connected, last_state, lock, inbuf>>
        /\ (op[t] \in TxOps /\ pc[t] = "post" /\ pc'[t] # pc[t]
              /\ resp[t] = S_ERR_NO_CONNECTION) =>
               (pc'[t] = "ret" /\ ret'[t] = "false" /\ UNCHANGED last_state)

\* C29: disconnect() runs with the lock free of any transaction and leaves
\* the line closed and the controller not connected; run again it changes
\* nothing; a typed operation that finds the line closed returns false and
\* has written nothing.
C29_DisconnectIdempotent == [][C29_Step]_vars

C29_Witness ==
    /\ op[GUI] = "disconnect"
    /\ pc[GUI] = "ret"
    /\ ser = "Closed"
    /\ ~is_connected
    /\ op[SEQ] = "rotate_sample"
    /\ pc[SEQ] = "post"
    /\ resp[SEQ] = S_ERR_NO_CONNECTION
    /\ written[SEQ] = <<>>

RotateOps == {"rotate_polarizer", "rotate_sample"}

C30_Step ==
    \A t \in Threads :
        /\ (op[t] = "none" /\ op'[t] \in RotateOps) =>
               /\ pc'[t] = "tx_lock"
               /\ Len(tok'[t]) = 5
               /\ tok'[t][1] = "1"
               /\ tok'[t][2] = (IF op'[t] = "rotate_polarizer" THEN "0" ELSE "1")
               /\ entry_state'[t] = last_state
        /\ (op[t] \in RotateOps /\ pc[t] = "tx_lock" /\ pc'[t] # pc[t] /\ ser = "Open") =>
               pc'[t] = "tx_write"
        /\ (op[t] \in RotateOps /\ pc[t] = "tx_write" /\ pc'[t] = "tx_read") =>
               written'[t] = Append(written[t], tok[t] \o <<NL>>)
        /\ (op[t] \in RotateOps /\ pc[t] = "post" /\ pc'[t] # pc[t]) =>
               /\ ret'[t] = (IF StartsWith(resp[t], S_OK) THEN "true" ELSE "false")
               /\ last_state' = last_state

\* C30: rotate_polarizer and rotate_sample have no local gate: invoked in
\* either safety state they go to the transaction, with the line open they
\* write their 10AAA / 11AAA command, and they return the verdict on the
\* device's reply; the safety state is neither read nor changed.
C30_RotateUngated == [][C30_Step]_vars

C30_Witness ==
    \E t \in Threads :
        /\ op[t] = "rotate_sample"
        /\ entry_state[t] = STATE_LATCHED
        /\ last_state = STATE_LATCHED
        /\ pc[t] = "post"
        /\ written[t] = <<T_SAMPLE45 \o <<NL>>>>
        /\ resp[t] = L_OK_11_045

\* ---------------------------------------------------- the safety state
T_HOME == <<"9", "6", "0", "0", "0">>

\* C15 as stated: reset() takes any line starting with "OK" for the
\* acknowledgement: it then sets Armed and returns true.
C15_AnyOkArms ==
    [][\A t \in Threads :
        (op[t] = "reset" /\ pc[t] = "post" /\ StartsWith(resp[t], S_OK)
           /\ pc'[t] # pc[t]) =>
            (last_state' = STATE_ARMED /\ ret'[t] = "true")]_vars

C15_Sent ==
    \A t \in Threads :
        (op[t] = "reset" /\ pc[t] # "ret") =>
            (tok[t] = T_RESET /\ AllWrites(written[t], T_RESET))

C15_Step ==
    \A t \in Threads :
        /\ (op'[t] = "reset" /\ op[t] # "reset") =>
               (pc'[t] = "tx_lock" /\ tok'[t] = T_RESET /\ UNCHANGED last_state)
        /\ (op[t] = "reset" /\ pc[t] = "post" /\ pc'[t] # pc[t]) =>
               IF Contains(resp[t], S_OK_RESET)
               THEN last_state' = STATE_ARMED /\ ret'[t] = "true"
               ELSE UNCHANGED last_state /\ ret'[t] = "false"

\* C15 (amended): reset() is sent as 98000 whatever the safety state; when
\* the reply contains "OK RESET" it sets Armed and returns true; for every
\* other reply, a line that starts with "OK" included ("OK 11 045",
\* "OK ESTOP"), the state is left as it was and reset() returns false.
C15_ResetArms == [](C15_Sent) /\ [][C15_Step]_vars

C15_Witness ==
    \E t \in Threads :
        /\ op[t] = "reset"
        /\ pc[t] = "post"
        /\ entry_state[t] = STATE_LATCHED
        /\ last_state = STATE_LATCHED
        /\ resp[t] = S_OK_RESET
        /\ written[t] = <<T_RESET \o <<NL>>>>

\* C16: home() called while Armed is a transaction with token 96000 and
\* returns true exactly when the reply starts with "OK", as send_command
\* classifies it.
C16_HomeAsSendCommand ==
    [][\A t \in Threads :
        /\ (op'[t] = "home" /\ op[t] # "home" /\ last_state = STATE_ARMED) =>
               (pc'[t] = "tx_lock" /\ tok'[t] = T_HOME)
        /\ (op[t] = "home" /\ pc[t] = "post" /\ pc'[t] # pc[t]) =>
               (ret'[t] = "true" <=> StartsWith(resp[t], S_OK))]_vars

C17_Frame ==
    last_state' # last_state =>
        \E t \in Threads :
            \/ /\ op[t] = "connect"
               /\ pc[t] = "connect_wait"
               /\ inbuf # <<>>
               /\ Strip(Head(inbuf)) = S_READY
               /\ is_connected'
               /\ last_state' = STATE_LATCHED
            \/ /\ op[t] \in {"connect", "reset"}
               /\ pc[t] = "post"
               /\ Contains(resp[t], S_OK_RESET)
               /\ last_state' = STATE_ARMED
            \/ /\ op[t] = "emergency_stop"
               /\ pc[t] = "post"
               /\ Contains(resp[t], S_OK_ESTOP)
               /\ last_state' = STATE_LATCHED

C17_Steps ==
    \A t \in Threads :
        (pc'[t] # pc[t] /\
           \/ op[t] \in SendOps \cup {"home", "disconnect"}
           \/ op'[t] \in SendOps \cup {"home", "disconnect"}
           \/ ret'[t] \in {"false", "raise"}) =>
            UNCHANGED last_state

\* C17: the safety state changes only when connect() reads READY (to
\* Latched), when a RESET is acknowledged (to Armed; reset() or connect()'s
\* forced RESET) or when an ESTOP is acknowledged (to Latched). Every step
\* of send_command, rotate_polarizer, rotate_sample, home and disconnect,
\* and every call that returns false or raises, leaves it as it was.
C17_StateFrame == [][C17_Frame]_vars /\ [][C17_Steps]_vars

C17_Witness ==
    \E t \in Threads :
        /\ op[t] = "connect"
        /\ pc[t] = "ret"
        /\ ret[t] = "raise"
        /\ entry_state[t] = STATE_ARMED
        /\ last_state = STATE_ARMED
        /\ ~is_connected

\* ==================================================================
\* Properties of the acquisition sequence (specification SpecSeq)
\* ==================================================================
\* The run is over: run_sequence returned or raised from inside its try block.
Terminated == seqpc = "done"

\* C4: a run that ends with an error raised inside its try block (controller
\* not connected, reset or polarizer move not acknowledged, sample move not
\* acknowledged after its retry, capture or I/O exception) has called
\* emergency_stop() exactly once before it terminates, and then raises to
\* its caller; raising the error and calling emergency_stop() is one step
\* of the handler, and the call is command 99000.
C4_FailedStopped ==
    /\ outcome = "Failed" => (run_estops = 1 /\ fail_cause # "none")
    /\ fail_cause # "none" => run_estops = 1
    /\ (Terminated /\ fail_cause # "none") => (outcome = "Failed" /\ run_ret = "raise")
    /\ (Terminated /\ run_ret = "raise") => run_estops = 1

C4_HandlerStep ==
    fail_cause' # fail_cause =>
        /\ op'[SEQ] = "emergency_stop"
        /\ tok'[SEQ] = T_ESTOP
        /\ pc'[SEQ] = "tx_lock"
        /\ run_estops' = run_estops + 1

C4_FailureStops == [](C4_FailedStopped) /\ [][C4_HandlerStep]_vars

C4_Witness ==
    /\ Terminated
    /\ outcome = "Failed"
    /\ fail_cause = "sample"
    /\ phase = "normal"
    /\ run_ret = "raise"
    /\ run_estops = 1

\* C5 as stated: whenever abort() was called during a run, the run ends
\* Aborted and made no emergency_stop() call.
C5_AbortAlwaysAborts ==
    (Terminated /\ abort_in_run) => (outcome = "Aborted" /\ run_estops = 0)

\* The run is at a checkpoint: the abort check at the top of a per-angle
\* iteration, or the one of a slice of a settling wait.
AtCheckpoint ==
    \/ seqpc = "angle" /\ idx < NAngles
    \/ seqpc \in {"settle_pol", "settle_move"} /\ slice < SettleSlices

C5_CheckpointStep ==
    (AtCheckpoint /\ abort_flag) =>
        /\ seqpc' = "finally"
        /\ outcome' = "Aborted"
        /\ run_estops' = 0
        /\ UNCHANGED <<thrVars, ctrlVars, events>>

C5_AbortedClean ==
    /\ outcome = "Aborted" => (abort_in_run /\ abort_flag /\ run_estops = 0
                               /\ fail_cause = "none" /\ op[SEQ] = "none")
    /\ tok[SEQ] = T_ESTOP => run_estops = 1

\* C5 (amended): the abort flag is acted on at the run's checkpoints only.
\* A run that reaches a checkpoint with the flag set terminates there in
\* Aborted, with no controller call made by that step; a run that ends
\* Aborted has made no emergency_stop() call and never had command 99000
\* in hand.
C5_AbortAtCheckpoint == [](C5_AbortedClean) /\ [][C5_CheckpointStep]_vars

C5_Witness ==
    /\ Terminated
    /\ outcome = "Aborted"
    /\ abort_in_run
    /\ phase = "normal"
    /\ Len(events) > 2 * NAngles

\* C6: the run resumes live streaming in its last step and only there.
C6_ResumeStep ==
    resumes' # resumes =>
        /\ seqpc = "finally"
        /\ Terminated'
        /\ resumes' = 1
        /\ cam_streaming'
        /\ pc[SEQ] = "idle"

C6_AfterResume ==
    resumes > 0 => UNCHANGED <<written, events, pc, op, tok, seqpc, resumes>>

C6_Resumed ==
    /\ (Terminated /\ outcome \in {"Done", "Aborted", "Failed"}) =>
           (resumes = 1 /\ cam_streaming)
    /\ resumes > 0 => (Terminated /\ pc[SEQ] = "idle" /\ op[SEQ] = "none")

\* C6: on every termination path (Done, Aborted, Failed) resume_live() is
\* called exactly once, in the run's last step: after it the run writes
\* nothing to the wire, makes no controller call and captures nothing.
C6_ResumeOnceLast ==
    [](C6_Resumed) /\ [][C6_ResumeStep]_vars /\ [][C6_AfterResume]_vars

C6_Witness ==
    /\ Terminated
    /\ outcome = "Failed"
    /\ fail_cause = "polarizer"
    /\ stops = 1
    /\ resumes = 1

\* The moves and captures of one phase, in order.
PhaseEvents(ph) ==
    [i \in 1..(2 * NAngles) |->
        IF i % 2 = 1
        THEN <<"sample", SampleAngleList[(i + 1) \div 2]>>
        ELSE <<"capture", ph, SampleAngleList[i \div 2]>>]

\* The events of a complete run with both phases.
ExpectedEvents ==
    <<<<"polarizer", 90>>>> \o PhaseEvents("crosspol")
    \o <<<<"polarizer", 0>>>> \o PhaseEvents("normal")

IsPrefix(s, t) == Len(s) <= Len(t) /\ s = SubSeq(t, 1, Len(s))

\* C7: in a run with both phases the acknowledged moves and the capture+log
\* events happen in the fixed order (polarizer 90, then per angle move and
\* capture in Cross-Pol; polarizer 0, then per angle move and capture in
\* Normal) at every moment of the run; a run that ends Done has made all of
\* them, 2N captures in all; and a run in which nothing raised and no
\* abort was requested ends Done.
C7_FixedOrder ==
    /\ (do_crosspol /\ do_normal) => IsPrefix(events, ExpectedEvents)
    /\ (Terminated /\ outcome = "Done" /\ do_crosspol /\ do_normal) =>
           events = ExpectedEvents
    /\ (Terminated /\ fail_cause = "none" /\ ~abort_in_run /\ ~abort_flag) =>
           outcome = "Done"

C7_Witness ==
    /\ Terminated
    /\ outcome = "Done"
    /\ do_crosspol
    /\ do_normal
    /\ ~abort_in_run
    /\ Len(events) = 4 * NAngles + 2
    /\ Len(SelectSeq(events, LAMBDA e : e[1] = "capture")) = 2 * NAngles

\* C18: in either phase a sample move that fails once is made a second
\* time for the same angle, and only the failure of that second move ends
\* the run.
C18_RetryInEveryPhase ==
    [][(seqpc = "move" /\ pc[SEQ] = "ret" /\ ret[SEQ] = "false" /\ seqpc' # seqpc) =>
        /\ seqpc' = "move_retry"
        /\ op'[SEQ] = "rotate_sample"
        /\ tok'[SEQ] = format_command(CMD_SAMPLE, SampleAngleList[idx + 1])
        /\ fail_cause' = "none"]_vars

C19_NoMotion ==
    /\ phase = "none" =>
           /\ events = <<>>
           /\ cam_exposure = "live"
           /\ op[SEQ] \in {"none", "reset", "emergency_stop"}
           /\ tok[SEQ] \in {<<>>, T_RESET, T_ESTOP}
           /\ AllWrites(written[SEQ], tok[SEQ])
    /\ fail_cause = "reset" => phase = "none"
    /\ (Terminated /\ fail_cause = "reset") =>
           (outcome = "Failed" /\ run_ret = "raise")

C19_Step ==
    (seqpc = "arming" /\ pc[SEQ] = "ret" /\ ret[SEQ] = "false" /\ seqpc' # seqpc) =>
        (fail_cause' = "reset" /\ seqpc' = "estopping" /\ phase' = "none")

\* C19: when the arming reset() returns false the run takes the error path
\* at once and ends Failed, raising to its caller; in such a run the
\* worker has written no command other than 98000 and the handler's 99000
\* (no polarizer, sample or home command), has set no exposure and has
\* captured nothing.
C19_ResetFailureFatal == [](C19_NoMotion) /\ [][C19_Step]_vars

C19_Witness ==
    /\ Terminated
    /\ fail_cause = "reset"
    /\ outcome = "Failed"
    /\ stops = 1
    /\ events = <<>>

\* ==================================================================
\* Properties of a run with the operator's E-STOP (specification SpecOp)
\* ==================================================================
\* C20: the worker writes a polarizer or sample move command to the wire
\* only while the controller's safety state is Armed.
C20_MovesOnlyArmed ==
    [][(pc[SEQ] = "tx_write" /\ pc'[SEQ] = "tx_read"
          /\ op[SEQ] \in {"rotate_polarizer", "rotate_sample"}) =>
        last_state = STATE_ARMED]_vars

\* ==================================================================
\* Properties of a run next to the live preview (specification SpecCam)
\* ==================================================================
\* C21: the run's capture never happens while the live-preview loop is
\* inside the camera's frame acquisition.
C21_CameraExclusive ==
    [][(seqpc = "capture" /\ seqpc' # "capture") => live_pc # "get_image"]_vars

\* ==================================================================
\* Properties of the worker's report (specification SpecSeq)
\* ==================================================================
\* C22: a run that ended Aborted is never reported as finished
\* successfully: its worker emits the abort signal.
C22_AbortDistinct ==
    (emitted # "none" /\ outcome = "Aborted") => emitted = "aborted"

\* The run starts a controller call in this step.
SeqStarts == op[SEQ] = "none" /\ op'[SEQ] # "none"

C23_SetStep ==
    (~abort_flag /\ abort_flag') =>
        UNCHANGED <<thrVars, ctrlVars, connVars, runVars, reqVars, camVars>>

\* With the flag set the run never starts the first attempt of a sample
\* move (it follows a checkpoint); what it can still start lies before its
\* next checkpoint: the arming reset, a phase's polarizer move, the retry of
\* a sample move, home(), or the failure handler's emergency stop.
C23_StartStep ==
    (abort_flag /\ Running /\ SeqStarts) =>
        /\ ~AtCheckpoint
        /\ seqpc' \in {"arming", "polarizer", "move_retry", "homing", "estopping"}

Captures == Len(SelectSeq(events, LAMBDA e : e[1] = "capture"))

\* The captures of a run in which every enabled phase completed.
AllCaptures == NAngles * ((IF do_crosspol THEN 1 ELSE 0) + (IF do_normal THEN 1 ELSE 0))

C26_Homing ==
    /\ seqpc = "homing" => op[SEQ] = "home"
    /\ op[SEQ] = "home" =>
           (seqpc \in {"homing", "killed"} /\ Captures = AllCaptures
            /\ run_estops = 0 /\ fail_cause = "none")
    /\ outcome = "Done" => (Captures = AllCaptures /\ run_estops = 0)

C26_Step ==
    /\ (op'[SEQ] = "home" /\ op[SEQ] # "home") =>
           (seqpc = "angle" /\ idx = NAngles /\ outcome = "none")
    /\ (seqpc = "homing" /\ seqpc' \notin {"homing", "killed"}) =>
           /\ pc[SEQ] = "ret"
           /\ ret[SEQ] \in {"true", "false"}
           /\ seqpc' = "finally"
           /\ outcome' = "Done"
           /\ run_estops' = 0
           /\ events' = events
    /\ seqpc \in {"finally", "done", "killed"} => seqpc' \in {"finally", "done", "killed"}

\* C26: when every enabled phase has completed the run calls home() once,
\* after the last capture, and whatever home() returns (acknowledged, not
\* acknowledged, or refused locally because the controller is Latched) the
\* run ends Done with no emergency stop.
C26_HomeBestEffort == [](C26_Homing) /\ [][C26_Step]_vars

C26_Witness ==
    /\ seqpc = "homing"
    /\ pc[SEQ] = "ret"
    /\ ret[SEQ] = "false"
    /\ entry_state[SEQ] = STATE_LATCHED
    /\ written[SEQ] = <<>>
    /\ Captures = 2 * NAngles

\* ==================================================================
\* Properties of the command encoding (specification SpecFmt)
\* ==================================================================
RECURSIVE DigitsValue(_)
\* The number a sequence of decimal digits denotes.
DigitsValue(d) ==
    IF d = <<>> THEN 0
    ELSE 10 * DigitsValue(SubSeq(d, 1, Len(d) - 1))
         + (CHOOSE v \in 0..9 : DigitChar[v + 1] = d[Len(d)])

\* The call of thread t was made with a code and an argument in range.
InRange(t) ==
    /\ args[t] # <<>>
    /\ args[t][1] \in 0..99
    /\ args[t][2] \in 0..999

\* C27: for a code in [0,99] and an argument in [0,999] the token is exactly
\* 5 decimal digits, the code in the first two and the argument in the last
\* three, so that no other pair in range has the same token.
C27_EncodeFiveDigits ==
    \A t \in Threads :
        (InRange(t) /\ tok[t] # <<>>) =>
            /\ Len(tok[t]) = 5
            /\ IsDigits(tok[t])
            /\ DigitsValue(SubSeq(tok[t], 1, 2)) = args[t][1]
            /\ DigitsValue(SubSeq(tok[t], 3, 5)) = args[t][2]
            /\ \A p \in EncCodes, a \in EncArgs :
                   (FormatD(p, 2) \o FormatD(a, 3) = tok[t]) => <<p, a>> = args[t]

C27_Witness ==
    /\ args[GUI] = <<1, 10>>
    /\ tok[GUI] = <<"0", "1", "0", "1", "0">>
    /\ pc[GUI] = "tx_read"
    /\ written[GUI] = <<tok[GUI] \o <<NL>>>>

\* C28: a call with a code outside [0,99] or an argument outside [0,999]
\* fails before anything is written; every line a typed command writes is
\* 5 decimal digits and the line terminator.
C28_OutOfRangeFails ==
    \A t \in Threads :
        /\ (args[t] # <<>> /\ ~InRange(t)) => (tok[t] = <<>> /\ written[t] = <<>>)
        /\ \A i \in 1..Len(written[t]) :
               /\ Len(written[t][i]) = 6
               /\ IsDigits(SubSeq(written[t][i], 1, 5))
               /\ written[t][i][6] = NL

\* ==================================================================
\* Properties of the configuration (specification SpecCam)
\* ==================================================================
\* C31: a settling wait of a run ends when it has lasted the duration that
\* is configured when the run is started.
C31_SettlingOverridable ==
    [][(seqpc \in {"settle_pol", "settle_move"} /\ seqpc' \in {"angle", "capture"}) =>
        slice = SETTLING_TIME_S]_vars


\* What a transaction has slept in its last backoff, in base delays, after k
\* timed-out attempts.
C32_Slept(k) == IF k = 0 THEN 0 ELSE 2 ^ (k - 1)

C32_Step(t) ==
    /\ (pc[t] = "tx_backoff" /\ pc'[t] # "tx_backoff") =>
           /\ attempt[t] \in 1..MAX_RETRIES
           /\ delay'[t] = 2 ^ (attempt[t] - 1)
    /\ (pc'[t] = "tx_backoff" /\ pc[t] # "tx_backoff") =>
           /\ pc[t] = "tx_read"
           /\ inbuf = <<>> \/ Strip(Head(inbuf)) = <<>>
           /\ attempt'[t] = attempt[t] + 1
    /\ (pc'[t] = "tx_write" /\ pc[t] # "tx_write") =>
           /\ pc[t] \in {"tx_lock", "tx_backoff"}
           /\ pc[t] = "tx_lock" => attempt'[t] = 0
    /\ (pc[t] = "tx_read" /\ pc'[t] = "tx_write") => FALSE

\* C32: in one transaction the backoff after the k-th timed-out attempt lasts
\* 2^(k-1) base delays, a backoff follows only an empty read, and a further
\* write of the transaction follows only that backoff.
C32_BackoffDoubles ==
    /\ [](\A t \in Threads :
            pc[t] \in {"tx_write", "tx_read"} => delay[t] = C32_Slept(attempt[t]))
    /\ [][\A t \in Threads : C32_Step(t)]_vars

C32_Witness ==
    \E t \in Threads :
        /\ pc[t] = "tx_write"
        /\ attempt[t] = 2
        /\ delay[t] = 2
        /\ Len(written[t]) = 2


\* The run's preconditions do not hold.
C33_Unmet == ~is_connected \/ (~do_crosspol /\ ~do_normal)

\* C33: a run whose controller is not connected, or that has no phase
\* enabled, ends with an error raised before anything is done to the devices:
\* the worker writes no command, the exposure stays as it was, stop_live is
\* not called and nothing is captured.
C33_RejectedEarly ==
    (C33_Unmet /\ seqpc \notin {"idle", "started", "prepare"}) =>
        /\ seqpc \in {"rejected", "estopping", "finally", "done"}
        /\ seqpc = "rejected" => outcome = "Rejected" /\ run_ret = "raise"
        /\ seqpc # "rejected" => fail_cause = "not_connected"
        /\ seqpc = "done" => outcome = "Failed" /\ run_ret = "raise"
        /\ written[SEQ] = <<>>
        /\ cam_exposure = "live"
        /\ stops = 0
        /\ events = <<>>
        /\ phase = "none"

C33_Witness ==
    /\ ~is_connected
    /\ do_crosspol
    /\ seqpc = "done"
    /\ outcome = "Failed"
    /\ run_estops = 1
    /\ written[SEQ] = <<>>

C33_WitnessNoModes ==
    /\ is_connected
    /\ seqpc = "rejected"
    /\ emitted = "error_occurred"


\* run_sequence has returned or raised.
C34_Ended == seqpc \in {"done", "rejected"}

\* C34 as stated: a started run ends, and from homing, as from every other
\* stage, it can still end Aborted (an abort was requested) or Failed (the
\* command was not acknowledged).
C34_EveryStageEscapes ==
    /\ (seqpc = "started") ~> C34_Ended
    /\ [][(seqpc = "homing" /\ seqpc' # "homing") =>
            /\ abort_flag => outcome' = "Aborted"
            /\ (~abort_flag /\ ret[SEQ] # "true") => seqpc' = "estopping"]_vars

\* C34: a started run ends, in exactly one of Done, Aborted and Failed once
\* it is past its first statements (a run with no phase is rejected there);
\* the end is final; it leaves no controller call behind; a run that has
\* reached homing ends Done whatever happens.
C34_Terminates ==
    /\ (seqpc = "started") ~> C34_Ended
    /\ [](seqpc = "done" =>
            /\ outcome \in {"Done", "Aborted", "Failed"}
            /\ pc[SEQ] = "idle")
    /\ [](seqpc = "rejected" => outcome = "Rejected")
    /\ [][C34_Ended => (seqpc' = seqpc /\ outcome' = outcome)]_vars
    /\ [][seqpc = "homing" =>
            /\ seqpc' \in {"homing", "finally"}
            /\ seqpc' = "finally" => outcome' = "Done"]_vars

\* An abort requested while home() is in flight, and the run ended Done.
C34_Witness ==
    /\ seqpc = "done"
    /\ outcome = "Done"
    /\ abort_flag
    /\ abort_in_run

\* Ends reached from the other stages.
C34_FailedArming == seqpc = "done" /\ outcome = "Failed" /\ fail_cause = "reset"
C34_AbortedCrosspol == seqpc = "done" /\ outcome = "Aborted" /\ phase = "crosspol"
C34_AbortedNormal == seqpc = "done" /\ outcome = "Aborted" /\ phase = "normal"
C34_FailedCrosspol == seqpc = "done" /\ outcome = "Failed" /\ phase = "crosspol"
C34_FailedNormal == seqpc = "done" /\ outcome = "Failed" /\ phase = "normal"


\* ------------------------------------------- a device that answers late
\* The device's acknowledgement of a command line it received.
AckOf(w) ==
    IF w = T_RESET \o <<NL>> THEN S_OK_RESET
    ELSE IF w = T_ESTOP \o <<NL>> THEN S_OK_ESTOP
    ELSE S_OK \o <<" ">> \o SubSeq(w, 1, 2) \o <<" ">> \o SubSeq(w, 3, 5)

\* The thread whose read is in progress.
Reader(t) == pc[t] = "tx_read"

\* The transaction of thread u has returned without a reply, and u has not
\* yet left the operation that made it: its command lines were written and
\* never answered.
Unanswered(u) ==
    /\ pc[u] = "post"
    /\ resp[u] = S_ERR_TIMEOUT
    /\ written[u] # <<>>

\* The device acknowledges a command line it received: the one of the read
\* in progress, or, late, one that was never answered. The line arrives in
\* the input buffer after reset_input_buffer() and before readline() ends.
DeviceAck ==
    /\ ser = "Open"
    /\ Len(inbuf) < MaxBuf
    /\ \E t \in Threads :
          /\ Reader(t)
          /\ \E u \in Threads :
                /\ u = t \/ Unanswered(u)
                /\ inbuf' = Append(inbuf, AckOf(written[u][Len(written[u])]) \o <<NL>>)
    /\ UNCHANGED seqVars
    /\ UNCHANGED <<ser, is_connected, last_state, lock, thrVars, connVars>>

\* Two threads call typed operations on a connected controller whose device
\* answers every command it answers with that command's acknowledgement.
NextLate ==
    \/ DeviceAck
    \/ \E t \in Threads : TypedCall(t)
    \/ \E t \in Threads : _send_raw_command(t)
    \/ \E t \in Threads : Post(t)
    \/ \E t \in Threads : CallReturn(t)

SpecLate == InitSeq /\ [][NextLate]_vars

\* C35: a typed operation returns true only on the acknowledgement of the
\* command it sent.
C35_OwnAckOnly ==
    [][\A t \in Threads :
          (pc[t] = "post" /\ pc'[t] = "ret" /\ ret'[t] = "true"
              /\ op[t] \in SendOps \cup {"emergency_stop", "reset"}) =>
          resp[t] = AckOf(tok[t] \o <<NL>>)]_vars

\* A sample move that returned true on the late acknowledgement of the
\* polarizer move another thread had given up.
C35_LateAckTaken ==
    /\ pc[GUI] = "ret"
    /\ op[GUI] = "rotate_sample"
    /\ ret[GUI] = "true"
    /\ Unanswered(SEQ)
    /\ op[SEQ] = "rotate_polarizer"


\* C36: when run_sequence gives control back after a run that ended Failed,
\* the controller's safety state is LATCHED.
C36_FailedLatched ==
    (seqpc = "done" /\ outcome = "Failed") => last_state = STATE_LATCHED

\* A run that failed on a connected controller, whose emergency stop was
\* written and not acknowledged: the state is still ARMED.
C36_FailedArmed ==
    /\ seqpc = "done"
    /\ outcome = "Failed"
    /\ is_connected
    /\ fail_cause = "sample"
    /\ last_state = STATE_ARMED


\* C37: an abort() made after the worker was started and before the first
\* statement of run_sequence is not lost: that run does not end Done.
C37_EarlyAbortKept ==
    (abort_early /\ seqpc = "done") => outcome # "Done"

\* The request made at start-up is gone after the first statement.
C37_EarlyAbortCleared ==
    /\ abort_early
    /\ ~abort_flag
    /\ ~abort_in_run
    /\ seqpc = "done"
    /\ outcome = "Done"
    /\ emitted = "finished_ok"


\* C38: run_sequence calls resume_live only after it has called stop_live.
C38_ResumeBalanced == resumes > 0 => stops > 0

\* A run that failed its connection check and resumed a stream it had not
\* stopped.
C38_ResumeWithoutStop ==
    /\ seqpc = "done"
    /\ fail_cause = "not_connected"
    /\ stops = 0
    /\ resumes = 1
    /\ cam_streaming


\* C39: every log record of a run stands for an image the camera delivered:
\* no record is appended for a capture that gave no image, and such a run
\* does not end Done.
C39_RecordsHaveImages == ~no_image

\* A run that logged a capture with no image and ended Done.
C39_DoneWithoutImage ==
    /\ seqpc = "done"
    /\ outcome = "Done"
    /\ no_image
    /\ emitted = "finished_ok"


\* C40: the lock is held only by a thread that is in a transaction and goes
\* on with it (to its reply, the end of its retries or an I/O error), so a
\* caller of emergency_stop() that waits for the lock gets it.
C40_LockReleased ==
    \A t \in Threads : lock = t => (Alive(t) /\ InTx(t))

\* The worker was terminated inside a transaction, after the operator's
\* emergency stop had returned: the lock stays taken.
C40_LockOrphaned ==
    /\ seqpc = "killed"
    /\ lock = SEQ
    /\ presses = 1
    /\ ~in_estop
    /\ pc[GUI] = "idle"

====
